---- MODULE Spec2Model ----
(***************************************************************************)
(* Model of the tech-tree repository: the graph loading hook, the seed     *)
(* scripts (scalar normalizer, node normalizer, edge normalizer, sanity    *)
(* checks, store replacement) and the store readers.                       *)
(*                                                                         *)
(* Text is modelled in two ways.  Identifiers are TLA+ strings, joined     *)
(* with \o exactly as the template literals of the scripts join them.      *)
(* Maturity (TRL) values are scanned character by character by a regular   *)
(* expression, so their textual form is a sequence of one-character        *)
(* strings.                                                                *)
(***************************************************************************)
EXTENDS Integers, Sequences, FiniteSets, TLC

VARIABLES
    \* ---- useTechTree hook and the page's active topic ----
    currentTopic,   \* page.tsx: currentTopic
    fetches,        \* every fetchTechTree() call started so far, in start order
    techTree,       \* useTechTree: techTree
    isLoadingData,  \* useTechTree: isLoading
    error,          \* useTechTree: error
    \* ---- toSingleTrl applied to one raw value ----
    trlPc, trlValue, trlDefault, trlResult,
    \* ---- normalizeNodes applied to one node array ----
    nnPc, nnInput, nnOutput, nnWarned,
    \* ---- normalizeTechTreeEdges applied to one edge array ----
    nePc, neInput, neOutput, neExpected,
    neAgain,        \* what normalizeTechTreeEdges returns for its own output
    neCheck,        \* what runEdgeSanityCheck did with the two counts
    \* ---- one run of a seed script (main) against the document store ----
    ingPc,          \* where main() is: the await it is suspended on
    ingScript,      \* which script runs: "nuclear" or "fossil_fuels"
    ingDoc,         \* the content of the JSON file it reads
    ingNodes,       \* finalNodes
    ingEdges,       \* finalEdges
    ingThrown,      \* the Error main() threw before its try block, if any
    ingWarned,      \* what runIdConsistencyCheck reported
    exitCode,       \* process.exitCode
    clientOpen,     \* the MongoClient is connected
    store,          \* database name -> its "nodes" and "edges" collections
    storeLog,       \* the deleteMany / insertMany calls issued, in order
    ingFailed,      \* history: the store call of the run that rejected, or "none"
    \* ---- one request to the simulation route (a reader of the store) ----
    rdPc, rdTopic, rdNodes, rdEdges,
    rdYears,        \* the `years` parameter of the request and what parseInt made of it
    rdStatus,       \* status of the response the validation returned (0: none)
    \* ---- the TechTree component (view state) ----
    isLoading,              \* a layout call has been started and none has finished since
    uiNodes,                \* `nodes`: the rendered nodes
    uiEdges,                \* `edges`: the rendered edges
    selectedNode,           \* id of the selected node, or NoSelection
    highlightedElements,    \* [nodeIds, edgeIds]
    groupingMode,
    showingRelatedNodes,    \* the anchor of "show connected", or NoAnchor
    showOnlyConnected,
    searchInput,
    searchTerm,
    isEditing,
    selectedCategory,
    layouts,                \* the loadLayout() calls awaiting getLayoutedElements, oldest first
    layoutBudget,           \* loadLayout() calls that the behaviour may still start
    lastEvent,              \* history: the last event of the component, its
                            \* argument and the view state it found
    layoutRejected,         \* history: a loadLayout() call has rejected
    \* ---- the category filter applied to one graph ----
    cfPc, cfGraph, cfCategory, cfResult,
    \* ---- findConnectedElements applied to one node id and edge array ----
    fcPc, fcNodeId, fcEdges, fcResult,
    \* ---- requests to the DELETE handler of the edge route ----
    delReqs

fetchVars == <<currentTopic, fetches, techTree, isLoadingData, error>>
trlVars == <<trlPc, trlValue, trlDefault, trlResult>>
nnVars == <<nnPc, nnInput, nnOutput, nnWarned>>
neVars == <<nePc, neInput, neOutput, neExpected, neAgain, neCheck>>
ingVars == <<ingPc, ingScript, ingDoc, ingNodes, ingEdges, ingThrown, ingWarned,
             exitCode, clientOpen, store, storeLog, ingFailed>>
rdVars == <<rdPc, rdTopic, rdNodes, rdEdges, rdYears, rdStatus>>
viewVars == <<isLoading, uiNodes, uiEdges, selectedNode, highlightedElements,
              groupingMode, showingRelatedNodes, showOnlyConnected, searchInput,
              searchTerm, isEditing, selectedCategory, layouts, layoutBudget,
              lastEvent, layoutRejected>>
filterVars == <<cfPc, cfGraph, cfCategory, cfResult, fcPc, fcNodeId, fcEdges, fcResult>>
delVars == <<delReqs>>
vars == <<fetchVars, trlVars, nnVars, neVars, ingVars, rdVars, viewVars, filterVars,
          delVars>>

(***************************************************************************)
(* Bounds                                                                  *)
(***************************************************************************)
MaxFetches == 4     \* fetchTechTree() calls in one behaviour
MaxLen == 3         \* characters of a raw maturity text
MaxNodes == 2       \* nodes of a node array given to normalizeNodes
MaxRecords == 2     \* relation records of an edge array
MaxTargets == 2     \* entries of one `targets` list
MaxDocNodes == 2    \* nodes of a seed document
MaxDocEdges == 2    \* edge records of a seed document
MaxLayouts == 2     \* loadLayout() calls in one behaviour of the page
MaxBurst == 3       \* loadLayout() calls in one behaviour of the layout effect alone
MaxGraphNodes == 3  \* nodes of a graph given to the category filter
MaxGraphEdges == 1  \* edges of a graph given to the category filter
MaxConnEdges == 2   \* edges given to findConnectedElements
MaxDeletes == 2     \* concurrent requests to the DELETE handler of the edge route
MaxYearsLen == 2    \* characters of the `years` query parameter

(***************************************************************************)
(* Topics (lib/topicConfig)                                                *)
(***************************************************************************)
TOPICS == {"nuclear", "fossil_fuels"}
DEFAULT_TOPIC == "nuclear"

(***************************************************************************)
(* useTechTree                                                             *)
(***************************************************************************)
NoTree == [of |-> "null"]
NoError == "null"

\* The body of the response to GET /api/tech-tree?topic=t.
TreeOf(t) == [of |-> t]

FetchPcs == {"fetch", "json", "applied", "failed"}

FetchIdle ==
    /\ currentTopic = DEFAULT_TOPIC
    /\ fetches = <<>>
    /\ techTree = NoTree
    /\ isLoadingData = TRUE
    /\ error = NoError

\* State after the first render: the effect has run once for the default
\* topic, so its fetch is in flight and isLoading is (still) true.
FetchInit ==
    /\ currentTopic = DEFAULT_TOPIC
    /\ fetches = <<[topic |-> DEFAULT_TOPIC, pc |-> "fetch"]>>
    /\ techTree = NoTree
    /\ isLoadingData = TRUE
    /\ error = NoError

\* The user picks another topic: setCurrentTopic, re-render, and the effect
\* of useTechTree runs for the new topic (setIsLoading(true), fetch started).
\* Nothing cancels or marks the fetches already in flight.
SetTopicHook(t) ==
    /\ t # currentTopic
    /\ Len(fetches) < MaxFetches
    /\ currentTopic' = t
    /\ fetches' = Append(fetches, [topic |-> t, pc |-> "fetch"])
    /\ isLoadingData' = TRUE
    /\ UNCHANGED <<techTree, error>>

\* The hook on its own, whatever changes its argument.
SetTopic(t) ==
    /\ SetTopicHook(t)
    /\ UNCHANGED <<trlVars, nnVars, neVars, ingVars, rdVars, viewVars, filterVars, delVars>>

\* `await fetch(...)` settles.  outcome "ok": response.ok, continue to
\* response.json().  "notok": throw new Error('Failed to fetch tech tree
\* data').  "reject": the fetch promise rejects (network error).
FetchSettle(i, outcome) ==
    /\ i \in 1..Len(fetches)
    /\ fetches[i].pc = "fetch"
    /\ IF outcome = "ok"
       THEN /\ fetches' = [fetches EXCEPT ![i].pc = "json"]
            /\ UNCHANGED <<techTree, isLoadingData, error>>
       ELSE /\ fetches' = [fetches EXCEPT ![i].pc = "failed"]
            /\ error' = IF outcome = "notok"
                        THEN "Failed to fetch tech tree data"
                        ELSE "network error"
            /\ isLoadingData' = FALSE
            /\ UNCHANGED techTree
    /\ UNCHANGED currentTopic
    /\ UNCHANGED <<trlVars, nnVars, neVars, ingVars, rdVars, viewVars, filterVars, delVars>>

\* `await response.json()` settles: setTechTree(data); setError(null); or the
\* catch branch; then finally setIsLoading(false).
JsonSettleHook(i, parsed) ==
    /\ i \in 1..Len(fetches)
    /\ fetches[i].pc = "json"
    /\ IF parsed
       THEN /\ fetches' = [fetches EXCEPT ![i].pc = "applied"]
            /\ techTree' = TreeOf(fetches[i].topic)
            /\ error' = NoError
       ELSE /\ fetches' = [fetches EXCEPT ![i].pc = "failed"]
            /\ error' = "invalid json"
            /\ UNCHANGED techTree
    /\ isLoadingData' = FALSE
    /\ UNCHANGED currentTopic

\* The hook on its own: no component state depends on the step.
JsonSettle(i, parsed) ==
    /\ JsonSettleHook(i, parsed)
    /\ UNCHANGED <<trlVars, nnVars, neVars, ingVars, rdVars, viewVars, filterVars, delVars>>

(***************************************************************************)
(* Scalar normalizer: toSingleTrl                                          *)
(***************************************************************************)
DigitChars == <<"0", "1", "2", "3", "4", "5", "6", "7", "8", "9">>

IsDigit(c) == \E d \in 1..10 : DigitChars[d] = c

\* Raw values: a JSON value of the field, or the field missing.
Undefined == [kind |-> "undefined"]
Null == [kind |-> "null"]
Str(s) == [kind |-> "string", text |-> s]
Num(n) == [kind |-> "number", n |-> n]

RECURSIVE NatToText(_)
NatToText(n) ==
    IF n < 10 THEN <<DigitChars[n + 1]>>
    ELSE NatToText(n \div 10) \o <<DigitChars[(n % 10) + 1]>>

\* String(value) for a string or an integer number.
StringOf(value) ==
    IF value.kind = "string" THEN value.text
    ELSE IF value.n < 0 THEN <<"-">> \o NatToText(0 - value.n)
    ELSE NatToText(value.n)

\* End of the greedy \d+ that starts at position i (i is a digit).
RECURSIVE DigitRunEnd(_, _)
DigitRunEnd(text, i) ==
    IF i < Len(text) /\ IsDigit(text[i + 1])
    THEN DigitRunEnd(text, i + 1)
    ELSE i

\* text.match(/\d+/) tried from position i on: the match, or <<>> for null.
RECURSIVE MatchDigitsFrom(_, _)
MatchDigitsFrom(text, i) ==
    IF i > Len(text) THEN <<>>
    ELSE IF IsDigit(text[i]) THEN SubSeq(text, i, DigitRunEnd(text, i))
    ELSE MatchDigitsFrom(text, i + 1)

\* Mutant: /\d/ in place of /\d+/ (the match is one digit).
MatchDigits_OneDigit(text) ==
    LET m == MatchDigitsFrom(text, 1)
    IN  IF m = <<>> THEN <<>> ELSE <<m[1]>>

MatchDigits(text) == MatchDigitsFrom(text, 1)

toSingleTrl(value, defaultValue) ==
    LET dflt == IF defaultValue = Undefined THEN <<"1">> ELSE defaultValue.text
    IN  IF value.kind \in {"undefined", "null"} THEN dflt
        ELSE LET match == MatchDigits(StringOf(value))
             IN  IF match # <<>> THEN match ELSE dflt

TrlChars == {"7", "9", "-", "x"}

TextsUpTo(n) == UNION {[1..k -> TrlChars] : k \in 0..n}

TrlNumbers == {0 - 12, 0, 5, 56, 709}

RawTrlValues ==
    {Undefined, Null} \cup {Str(s) : s \in TextsUpTo(MaxLen)}
                      \cup {Num(n) : n \in TrlNumbers}

TrlDefaults == {Undefined, Str(<<"1">>), Str(<<"3">>)}

TrlIdle ==
    /\ trlPc = "idle"
    /\ trlValue = Undefined
    /\ trlDefault = Undefined
    /\ trlResult = <<>>

TrlInit ==
    /\ trlPc = "call"
    /\ trlValue \in RawTrlValues
    /\ trlDefault \in TrlDefaults
    /\ trlResult = <<>>

CallToSingleTrl ==
    /\ trlPc = "call"
    /\ trlResult' = toSingleTrl(trlValue, trlDefault)
    /\ trlPc' = "returned"
    /\ UNCHANGED <<trlValue, trlDefault>>
    /\ UNCHANGED <<fetchVars, nnVars, neVars, ingVars, rdVars, viewVars, filterVars, delVars>>

(***************************************************************************)
(* Node normalizer: normalizeNodes                                         *)
(*                                                                         *)
(* A node is a function from the keys present on the record to their       *)
(* values, so that `"k" in node` is  "k" \in DOMAIN node.                   *)
(***************************************************************************)
TRL_CURRENT == "trl_current"
TRL_PROJECTED == "trl_projected_5_10_years"

\* node[key], undefined when the key is not on the record.
Field(node, key) == IF key \in DOMAIN node THEN node[key] ELSE Undefined

\* k.startsWith("trl_projected")
StartsWithTrlProjected(k) ==
    k \in {"trl_projected_5_10_years", "trl_projected_2030", "trl_projected"}

\* Mutant: the projected field is normalised (so defaulted) on every node,
\* present or not.
NormalizeNode_AlwaysProjected(node) ==
    [k \in DOMAIN node \cup {TRL_CURRENT, TRL_PROJECTED} |->
        IF k = TRL_CURRENT
        THEN Str(toSingleTrl(Field(node, TRL_CURRENT), Str(<<"1">>)))
        ELSE IF k = TRL_PROJECTED
        THEN Str(toSingleTrl(Field(node, TRL_PROJECTED), Undefined))
        ELSE node[k]]

\* The body of the nodes.map callback: the updated copy of one node.
NormalizeNode(node) ==
    [k \in DOMAIN node \cup {TRL_CURRENT} |->
        IF k = TRL_CURRENT
        THEN Str(toSingleTrl(Field(node, TRL_CURRENT), Str(<<"1">>)))
        ELSE IF k = TRL_PROJECTED
        THEN Str(toSingleTrl(node[TRL_PROJECTED], Undefined))
        ELSE node[k]]

\* Whether the callback pushes node.id to badNodes.
HasUnexpectedKeys(node) ==
    \E k \in DOMAIN node : StartsWithTrlProjected(k) /\ k # TRL_PROJECTED

normalizeNodes(nodes) == [i \in 1..Len(nodes) |-> NormalizeNode(nodes[i])]

RECURSIVE BadNodesFrom(_, _)
BadNodesFrom(nodes, i) ==
    IF i > Len(nodes) THEN <<>>
    ELSE (IF HasUnexpectedKeys(nodes[i]) THEN <<nodes[i]["id"]>> ELSE <<>>)
         \o BadNodesFrom(nodes, i + 1)

\* The ids that normalizeNodes names in its console warning.
badNodes(nodes) == BadNodesFrom(nodes, 1)

\* ---- inputs of normalizeNodes ----
Missing == [kind |-> "missing"]     \* generator only: the key is not on the record

MkNode(id, cur, proj, extra, refs) ==
    LET keys == {"id", "category"}
                \cup (IF cur = Missing THEN {} ELSE {TRL_CURRENT})
                \cup (IF proj = Missing THEN {} ELSE {TRL_PROJECTED})
                \cup (IF extra = Missing THEN {} ELSE {"trl_projected_2030"})
                \cup (IF refs = Missing THEN {} ELSE {"references"})
    IN  [k \in keys |->
            CASE k = "id" -> id
              [] k = "category" -> "Reactor"
              [] k = TRL_CURRENT -> cur
              [] k = TRL_PROJECTED -> proj
              [] k = "trl_projected_2030" -> extra
              [] k = "references" -> refs.list]

Refs(list) == [kind |-> "array", list |-> list]

SeqsUpTo(S, n) == UNION {[1..k -> S] : k \in 0..n}

RawNodes ==
    {MkNode(id, cur, proj, extra, Missing) :
        id \in {"a", "b"},
        cur \in {Missing, Null, Str(<<"5", "-", "6">>), Num(7)},
        proj \in {Missing, Null, Str(<<"x", "7", "-", "9">>)},
        extra \in {Missing, Str(<<"8">>)}}

NnIdle ==
    /\ nnPc = "idle"
    /\ nnInput = <<>>
    /\ nnOutput = <<>>
    /\ nnWarned = <<>>

NnInit ==
    /\ nnPc = "call"
    /\ nnInput \in SeqsUpTo(RawNodes, MaxNodes)
    /\ nnOutput = <<>>
    /\ nnWarned = <<>>

CallNormalizeNodes ==
    /\ nnPc = "call"
    /\ nnOutput' = normalizeNodes(nnInput)
    /\ nnWarned' = badNodes(nnInput)
    /\ nnPc' = "returned"
    /\ UNCHANGED nnInput
    /\ UNCHANGED <<fetchVars, trlVars, neVars, ingVars, rdVars, viewVars, filterVars, delVars>>

(***************************************************************************)
(* Edge normalizer: normalizeTechTreeEdges                                 *)
(*                                                                         *)
(* A relation record is a function from the keys present on it ("source",  *)
(* "target", "targets") to their values.                                   *)
(***************************************************************************)
\* `edge_src_${sourceId}_tgt_${targetId}`
EdgeId(sourceId, targetId) == "edge_src_" \o sourceId \o "_tgt_" \o targetId

NormalizedEdge(sourceId, targetId) ==
    [id |-> EdgeId(sourceId, targetId), source |-> sourceId, target |-> targetId]

\* What one record adds to expectedEdgeCount (first loop).
ExpectedOf(edge) ==
    IF "target" \in DOMAIN edge THEN 1
    ELSE IF "targets" \in DOMAIN edge THEN Len(edge["targets"])
    ELSE 0

RECURSIVE ExpectedFrom(_, _)
ExpectedFrom(edges, i) ==
    IF i > Len(edges) THEN 0
    ELSE ExpectedOf(edges[i]) + ExpectedFrom(edges, i + 1)

\* !sourceId: the key is missing, or its value is the empty string.
NoSource(edge) == "source" \notin DOMAIN edge \/ edge["source"] = ""

\* Mutant: the fan-out loop stops one target short.
EmittedOf_DropsLastTarget(edge) ==
    IF NoSource(edge) THEN <<>>
    ELSE IF "target" \in DOMAIN edge
    THEN <<NormalizedEdge(edge["source"], edge["target"])>>
    ELSE IF "targets" \in DOMAIN edge
    THEN [j \in 1..(Len(edge["targets"]) - 1) |->
             NormalizedEdge(edge["source"], edge["targets"][j])]
    ELSE <<>>

\* Mutant: a single-target record is emitted with its endpoints exchanged.
EmittedOf_ReversesSingle(edge) ==
    IF NoSource(edge) THEN <<>>
    ELSE IF "target" \in DOMAIN edge
    THEN <<NormalizedEdge(edge["target"], edge["source"])>>
    ELSE IF "targets" \in DOMAIN edge
    THEN [j \in 1..Len(edge["targets"]) |->
             NormalizedEdge(edge["source"], edge["targets"][j])]
    ELSE <<>>

\* What one record pushes to normalizedEdges (second loop).
EmittedOf(edge) ==
    IF NoSource(edge) THEN <<>>
    ELSE IF "target" \in DOMAIN edge
    THEN <<NormalizedEdge(edge["source"], edge["target"])>>
    ELSE IF "targets" \in DOMAIN edge
    THEN [j \in 1..Len(edge["targets"]) |->
             NormalizedEdge(edge["source"], edge["targets"][j])]
    ELSE <<>>

RECURSIVE EmittedFrom(_, _)
EmittedFrom(edges, i) ==
    IF i > Len(edges) THEN <<>>
    ELSE EmittedOf(edges[i]) \o EmittedFrom(edges, i + 1)

normalizeTechTreeEdges(edges) ==
    [edges |-> EmittedFrom(edges, 1), expectedEdgeCount |-> ExpectedFrom(edges, 1)]

\* ---- inputs of normalizeTechTreeEdges ----
EdgeNodeIds == {"a", "a_tgt_a"}

NoKey == "<no key>"     \* generator only: the record has no "source" key

WithSource(src, rest) ==
    IF src = NoKey THEN rest
    ELSE [k \in DOMAIN rest \cup {"source"} |->
             IF k = "source" THEN src ELSE rest[k]]

RawEdges ==
    {WithSource(src, [target |-> t]) :
        src \in EdgeNodeIds \cup {NoKey, ""}, t \in EdgeNodeIds}
    \cup
    {WithSource(src, [targets |-> ts]) :
        src \in EdgeNodeIds \cup {NoKey, ""}, ts \in SeqsUpTo(EdgeNodeIds, MaxTargets)}

\* Before the second call and before the check of the counts.
NotNormalizedAgain == [called |-> FALSE, edges |-> <<>>, expectedEdgeCount |-> 0]
EdgeCountNotChecked == [ran |-> FALSE, check |-> "none"]

NeIdle ==
    /\ nePc = "idle"
    /\ neInput = <<>>
    /\ neOutput = <<>>
    /\ neExpected = 0
    /\ neAgain = NotNormalizedAgain
    /\ neCheck = EdgeCountNotChecked

NeInit ==
    /\ nePc = "call"
    /\ neInput \in SeqsUpTo(RawEdges, MaxRecords)
    /\ neOutput = <<>>
    /\ neExpected = 0
    /\ neAgain = NotNormalizedAgain
    /\ neCheck = EdgeCountNotChecked

CallNormalizeEdges ==
    /\ nePc = "call"
    /\ LET r == normalizeTechTreeEdges(neInput)
       IN  /\ neOutput' = r.edges
           /\ neExpected' = r.expectedEdgeCount
    /\ nePc' = "returned"
    /\ UNCHANGED <<neInput, neAgain, neCheck>>
    /\ UNCHANGED <<fetchVars, trlVars, nnVars, ingVars, rdVars, viewVars, filterVars, delVars>>

\* normalizeTechTreeEdges is called on the edge array it returned: the edges
\* of normalizedData.graph are the originalEdges of the second call.
CallNormalizeEdgesAgain ==
    /\ nePc = "returned"
    /\ ~neAgain.called
    /\ LET r == normalizeTechTreeEdges(neOutput)
       IN  neAgain' = [called |-> TRUE, edges |-> r.edges,
                       expectedEdgeCount |-> r.expectedEdgeCount]
    /\ UNCHANGED <<nePc, neInput, neOutput, neExpected, neCheck>>
    /\ UNCHANGED <<fetchVars, trlVars, nnVars, ingVars, rdVars, viewVars, filterVars, delVars>>

(***************************************************************************)
(* Sanity checks of the seed scripts                                       *)
(***************************************************************************)
NoThrow == [check |-> "none", ids |-> <<>>]

\* runEdgeSanityCheck: the Error it throws, or NoThrow.
runEdgeSanityCheck(actualCount, expectedCount) ==
    IF actualCount # expectedCount
    THEN [check |-> "EdgeCount", ids |-> <<>>]
    ELSE NoThrow

\* Mutant: the check is given the number of distinct emitted identifiers.
CallEdgeSanityCheck_CountsDistinct ==
    /\ nePc = "returned"
    /\ ~neCheck.ran
    /\ neCheck' = [ran |-> TRUE,
                   check |-> runEdgeSanityCheck(
                                 Cardinality({neOutput[i].id : i \in 1..Len(neOutput)}),
                                 neExpected).check]
    /\ UNCHANGED <<nePc, neInput, neOutput, neExpected, neAgain>>
    /\ UNCHANGED <<fetchVars, trlVars, nnVars, ingVars, rdVars, viewVars, filterVars, delVars>>

\* main: runEdgeSanityCheck(finalEdges.length, expectedEdgeCount)
CallEdgeSanityCheck ==
    /\ nePc = "returned"
    /\ ~neCheck.ran
    /\ neCheck' = [ran |-> TRUE,
                   check |-> runEdgeSanityCheck(Len(neOutput), neExpected).check]
    /\ UNCHANGED <<nePc, neInput, neOutput, neExpected, neAgain>>
    /\ UNCHANGED <<fetchVars, trlVars, nnVars, ingVars, rdVars, viewVars, filterVars, delVars>>

\* !n.references || n.references.length === 0
LacksReferences(n) == "references" \notin DOMAIN n \/ Len(n["references"]) = 0

RECURSIVE MissingFrom(_, _)
MissingFrom(nodes, i) ==
    IF i > Len(nodes) THEN <<>>
    ELSE (IF LacksReferences(nodes[i]) THEN <<nodes[i]["id"]>> ELSE <<>>)
         \o MissingFrom(nodes, i + 1)

\* Mutant: the Error names only the first node without references.
runReferenceSanityCheck_NamesFirst(nodes) ==
    LET missing == MissingFrom(nodes, 1)
    IN  IF Len(missing) > 0
        THEN [check |-> "Reference", ids |-> <<missing[1]>>]
        ELSE NoThrow

\* runReferenceSanityCheck: the Error it throws (naming the ids), or NoThrow.
runReferenceSanityCheck(nodes) ==
    LET missing == MissingFrom(nodes, 1)
    IN  IF Len(missing) > 0
        THEN [check |-> "Reference", ids |-> missing]
        ELSE NoThrow

NotChecked == [ran |-> FALSE, missingInNodes |-> {}, isolatedNodes |-> {}]

\* runIdConsistencyCheck: what it logs; it never throws.
runIdConsistencyCheck(nodes, edges) ==
    LET nodeIds == {nodes[i]["id"] : i \in 1..Len(nodes)}
        edgeEndpointIds == {edges[i].source : i \in 1..Len(edges)}
                           \cup {edges[i].target : i \in 1..Len(edges)}
    IN  [ran |-> TRUE,
         missingInNodes |-> edgeEndpointIds \ nodeIds,
         isolatedNodes |-> nodeIds \ edgeEndpointIds]

(***************************************************************************)
(* main() of the two seed scripts, and the document store                  *)
(***************************************************************************)
Scripts == {"nuclear", "fossil_fuels"}

\* DB_NAME of the script, which is TOPICS[topic].dbName of its topic.
DbName(topic) == IF topic = "nuclear" THEN "nuclear_tt_db" ELSE "fossil_fuels_tt_db"

DbNames == {DbName(t) : t \in TOPICS}

\* The synchronous part of main(), up to `await client.connect()`: what it
\* computed, and the Error it threw if it threw one.
\* Mutant: the result of the reference check is dropped.
MainSync_ReferenceCheckDropped(script, doc, uriSet) ==
    IF ~doc.parses
    THEN [thrown |-> [check |-> "Parse", ids |-> <<>>],
          nodes |-> <<>>, edges |-> <<>>, warned |-> NotChecked]
    ELSE
    LET nodes == normalizeNodes(doc.nodes)
        norm == IF script = "fossil_fuels"
                THEN normalizeTechTreeEdges(doc.edges)
                ELSE [edges |-> doc.edges, expectedEdgeCount |-> Len(doc.edges)]
        edgeCheck == runEdgeSanityCheck(Len(norm.edges), norm.expectedEdgeCount)
        thrown ==
            IF edgeCheck # NoThrow THEN edgeCheck
            ELSE IF ~uriSet THEN [check |-> "MongoUri", ids |-> <<>>]
            ELSE NoThrow
    IN  [thrown |-> thrown, nodes |-> nodes, edges |-> norm.edges,
         warned |-> IF edgeCheck = NoThrow
                    THEN runIdConsistencyCheck(nodes, norm.edges)
                    ELSE NotChecked]

\* Mutant: a finding of the id consistency check is thrown like a fatal one.
MainSync_AdvisoryBlocks(script, doc, uriSet) ==
    IF ~doc.parses
    THEN [thrown |-> [check |-> "Parse", ids |-> <<>>],
          nodes |-> <<>>, edges |-> <<>>, warned |-> NotChecked]
    ELSE
    LET nodes == normalizeNodes(doc.nodes)
        norm == IF script = "fossil_fuels"
                THEN normalizeTechTreeEdges(doc.edges)
                ELSE [edges |-> doc.edges, expectedEdgeCount |-> Len(doc.edges)]
        edgeCheck == runEdgeSanityCheck(Len(norm.edges), norm.expectedEdgeCount)
        refCheck == runReferenceSanityCheck(nodes)
        idCheck == runIdConsistencyCheck(nodes, norm.edges)
        thrown ==
            IF edgeCheck # NoThrow THEN edgeCheck
            ELSE IF refCheck # NoThrow THEN refCheck
            ELSE IF idCheck.missingInNodes # {} \/ idCheck.isolatedNodes # {}
                 THEN [check |-> "IdConsistency", ids |-> <<>>]
            ELSE IF ~uriSet THEN [check |-> "MongoUri", ids |-> <<>>]
            ELSE NoThrow
    IN  [thrown |-> thrown, nodes |-> nodes, edges |-> norm.edges,
         warned |-> IF edgeCheck = NoThrow /\ refCheck = NoThrow
                    THEN idCheck
                    ELSE NotChecked]

MainSync(script, doc, uriSet) ==
    IF ~doc.parses
    THEN [thrown |-> [check |-> "Parse", ids |-> <<>>],
          nodes |-> <<>>, edges |-> <<>>, warned |-> NotChecked]
    ELSE
    LET nodes == normalizeNodes(doc.nodes)
        norm == IF script = "fossil_fuels"
                THEN normalizeTechTreeEdges(doc.edges)
                ELSE [edges |-> doc.edges, expectedEdgeCount |-> Len(doc.edges)]
        edgeCheck == runEdgeSanityCheck(Len(norm.edges), norm.expectedEdgeCount)
        refCheck == runReferenceSanityCheck(nodes)
        thrown ==
            IF edgeCheck # NoThrow THEN edgeCheck
            ELSE IF refCheck # NoThrow THEN refCheck
            ELSE IF ~uriSet THEN [check |-> "MongoUri", ids |-> <<>>]
            ELSE NoThrow
    IN  [thrown |-> thrown, nodes |-> nodes, edges |-> norm.edges,
         warned |-> IF edgeCheck = NoThrow /\ refCheck = NoThrow
                    THEN runIdConsistencyCheck(nodes, norm.edges)
                    ELSE NotChecked]

\* ---- seed documents ----
DocNodes ==
    {MkNode("a", Str(<<"5", "-", "6">>), Null, Missing, Refs(<<"ref1">>)),
     MkNode("b", Missing, Missing, Missing, Refs(<<"ref2">>)),
     MkNode("a", Num(7), Missing, Missing, Missing),
     MkNode("b", Missing, Missing, Missing, Refs(<<>>))}

\* fossil_fuel_tt_v2.json: raw relation records.
FossilDocEdges ==
    {[source |-> "a", target |-> "b"],
     [source |-> "a", target |-> "c"],
     [source |-> "a", targets |-> <<"b", "c">>],
     [target |-> "b"]}

\* nuclear_tt_v2.json: edges of the single-target shape, with their own ids.
NuclearDocEdges ==
    {NormalizedEdge("a", "b"),
     NormalizedEdge("a", "c"),
     [id |-> "e1", source |-> "b", target |-> "a"]}

Malformed == [parses |-> FALSE, nodes |-> <<>>, edges |-> <<>>]

DocsOf(script) ==
    {Malformed} \cup
    {[parses |-> TRUE, nodes |-> ns, edges |-> es] :
        ns \in SeqsUpTo(DocNodes, MaxDocNodes),
        es \in SeqsUpTo(IF script = "fossil_fuels" THEN FossilDocEdges
                        ELSE NuclearDocEdges, MaxDocEdges)}

\* What each database holds before the run (an earlier seed).
OldDb(db) ==
    [nodes |-> <<MkNode("old", Str(<<"4">>), Missing, Missing, Refs(<<db>>))>>,
     edges |-> <<NormalizedEdge("old", "old")>>]

StoreAtStart == [db \in DbNames |-> OldDb(db)]

IngPcs == {"idle", "rejected", "connect", "ping", "deleteNodes", "deleteEdges",
           "insertNodes", "insertEdges", "close", "done"}

\* No script has been started; the store holds `st`.
IngInitWith(st) ==
    /\ ingPc = "idle"
    /\ ingScript = "nuclear"
    /\ ingDoc = Malformed
    /\ ingNodes = <<>>
    /\ ingEdges = <<>>
    /\ ingThrown = NoThrow
    /\ ingWarned = NotChecked
    /\ exitCode = 0
    /\ clientOpen = FALSE
    /\ store = st
    /\ storeLog = <<>>
    /\ ingFailed = "none"

IngInit == IngInitWith(StoreAtStart)

\* The script is started: main() runs to its first await, or throws (the
\* rejection is unhandled, so the process ends with exit code 1).
RunMain(script, doc, uriSet) ==
    /\ ingPc = "idle"
    /\ LET r == MainSync(script, doc, uriSet)
       IN  /\ ingNodes' = r.nodes
           /\ ingEdges' = r.edges
           /\ ingThrown' = r.thrown
           /\ ingWarned' = r.warned
           /\ ingPc' = IF r.thrown = NoThrow THEN "connect" ELSE "rejected"
           /\ exitCode' = IF r.thrown = NoThrow THEN exitCode ELSE 1
    /\ ingScript' = script
    /\ ingDoc' = doc
    /\ UNCHANGED <<clientOpen, store, storeLog, ingFailed>>
    /\ UNCHANGED <<fetchVars, trlVars, nnVars, neVars, rdVars, viewVars, filterVars, delVars>>

\* Mutant: the catch block leaves process.exitCode alone.
Caught_KeepsExitCode ==
    /\ UNCHANGED exitCode
    /\ ingPc' = "close"
    /\ ingFailed' = ingPc

\* A store call of the try block rejects: catch (exitCode = 1), then finally.
Caught ==
    /\ exitCode' = 1
    /\ ingPc' = "close"
    /\ ingFailed' = ingPc

\* `await client.connect()` settles.
Connect(ok) ==
    /\ ingPc = "connect"
    /\ IF ok
       THEN clientOpen' = TRUE /\ ingPc' = "ping" /\ UNCHANGED <<exitCode, ingFailed>>
       ELSE Caught /\ UNCHANGED clientOpen
    /\ UNCHANGED <<ingScript, ingDoc, ingNodes, ingEdges, ingThrown, ingWarned,
                   store, storeLog>>
    /\ UNCHANGED <<fetchVars, trlVars, nnVars, neVars, rdVars, viewVars, filterVars, delVars>>

\* `await client.db("admin").command({ ping: 1 })` settles.
Ping(ok) ==
    /\ ingPc = "ping"
    /\ IF ok
       THEN ingPc' = "deleteNodes" /\ UNCHANGED <<exitCode, ingFailed>>
       ELSE Caught
    /\ UNCHANGED <<ingScript, ingDoc, ingNodes, ingEdges, ingThrown, ingWarned,
                   clientOpen, store, storeLog>>
    /\ UNCHANGED <<fetchVars, trlVars, nnVars, neVars, rdVars, viewVars, filterVars, delVars>>

\* `await nodesCollection.deleteMany({})` settles.
DeleteNodes(ok) ==
    /\ ingPc = "deleteNodes"
    /\ storeLog' = Append(storeLog, "deleteMany nodes")
    /\ IF ok
       THEN /\ store' = [store EXCEPT ![DbName(ingScript)].nodes = <<>>]
            /\ ingPc' = "deleteEdges"
            /\ UNCHANGED <<exitCode, ingFailed>>
       ELSE Caught /\ UNCHANGED store
    /\ UNCHANGED <<ingScript, ingDoc, ingNodes, ingEdges, ingThrown, ingWarned,
                   clientOpen>>
    /\ UNCHANGED <<fetchVars, trlVars, nnVars, neVars, rdVars, viewVars, filterVars, delVars>>

\* Where main() suspends next once the wipe is done: the insert of the nodes,
\* or of the edges when there are no nodes, or the close in `finally`.
AfterWipe ==
    IF Len(ingNodes) > 0 THEN "insertNodes"
    ELSE IF Len(ingEdges) > 0 THEN "insertEdges"
    ELSE "close"

AfterNodes == IF Len(ingEdges) > 0 THEN "insertEdges" ELSE "close"

\* Mutant: the wipe of the edges collection removes nothing.
DeleteEdges_KeepsOld(ok) ==
    /\ ingPc = "deleteEdges"
    /\ storeLog' = Append(storeLog, "deleteMany edges")
    /\ IF ok
       THEN /\ ingPc' = AfterWipe
            /\ UNCHANGED <<exitCode, ingFailed, store>>
       ELSE Caught /\ UNCHANGED store
    /\ UNCHANGED <<ingScript, ingDoc, ingNodes, ingEdges, ingThrown, ingWarned,
                   clientOpen>>
    /\ UNCHANGED <<fetchVars, trlVars, nnVars, neVars, rdVars, viewVars, filterVars, delVars>>

\* `await edgesCollection.deleteMany({})` settles.
DeleteEdges(ok) ==
    /\ ingPc = "deleteEdges"
    /\ storeLog' = Append(storeLog, "deleteMany edges")
    /\ IF ok
       THEN /\ store' = [store EXCEPT ![DbName(ingScript)].edges = <<>>]
            /\ ingPc' = AfterWipe
            /\ UNCHANGED <<exitCode, ingFailed>>
       ELSE Caught /\ UNCHANGED store
    /\ UNCHANGED <<ingScript, ingDoc, ingNodes, ingEdges, ingThrown, ingWarned,
                   clientOpen>>
    /\ UNCHANGED <<fetchVars, trlVars, nnVars, neVars, rdVars, viewVars, filterVars, delVars>>

\* `await nodesCollection.insertMany(finalNodes)` settles.  An ordered bulk
\* insert that fails has written the documents before the failing one.
InsertNodes(ok, written) ==
    /\ ingPc = "insertNodes"
    /\ storeLog' = Append(storeLog, "insertMany nodes")
    /\ IF ok
       THEN /\ store' = [store EXCEPT ![DbName(ingScript)].nodes = @ \o ingNodes]
            /\ ingPc' = AfterNodes
            /\ UNCHANGED <<exitCode, ingFailed>>
       ELSE /\ written < Len(ingNodes)
            /\ store' = [store EXCEPT ![DbName(ingScript)].nodes =
                                          @ \o SubSeq(ingNodes, 1, written)]
            /\ Caught
    /\ UNCHANGED <<ingScript, ingDoc, ingNodes, ingEdges, ingThrown, ingWarned,
                   clientOpen>>
    /\ UNCHANGED <<fetchVars, trlVars, nnVars, neVars, rdVars, viewVars, filterVars, delVars>>

\* `await edgesCollection.insertMany(finalEdges)` settles.
InsertEdges(ok, written) ==
    /\ ingPc = "insertEdges"
    /\ storeLog' = Append(storeLog, "insertMany edges")
    /\ IF ok
       THEN /\ store' = [store EXCEPT ![DbName(ingScript)].edges = @ \o ingEdges]
            /\ ingPc' = "close"
            /\ UNCHANGED <<exitCode, ingFailed>>
       ELSE /\ written < Len(ingEdges)
            /\ store' = [store EXCEPT ![DbName(ingScript)].edges =
                                          @ \o SubSeq(ingEdges, 1, written)]
            /\ Caught
    /\ UNCHANGED <<ingScript, ingDoc, ingNodes, ingEdges, ingThrown, ingWarned,
                   clientOpen>>
    /\ UNCHANGED <<fetchVars, trlVars, nnVars, neVars, rdVars, viewVars, filterVars, delVars>>

\* finally: `await client.close()`.
Close ==
    /\ ingPc = "close"
    /\ clientOpen' = FALSE
    /\ ingPc' = "done"
    /\ UNCHANGED <<ingScript, ingDoc, ingNodes, ingEdges, ingThrown, ingWarned,
                   exitCode, store, storeLog, ingFailed>>
    /\ UNCHANGED <<fetchVars, trlVars, nnVars, neVars, rdVars, viewVars, filterVars, delVars>>

(***************************************************************************)
(* GET of the simulation route: a reader of one topic's collections        *)
(***************************************************************************)
NotRead == [got |-> FALSE, docs |-> <<>>]

\* searchParams.get('years') of a request without the parameter.
NoParam == [kind |-> "null"]

NaN == [kind |-> "NaN"]

DigitValue(c) == (CHOOSE d \in 1..10 : DigitChars[d] = c) - 1

\* The value of the digits of `text` from position i up to the first
\* character that is not a digit, continuing the value `acc`.
RECURSIVE DigitsValueFrom(_, _, _)
DigitsValueFrom(text, i, acc) ==
    IF i > Len(text) \/ ~IsDigit(text[i]) THEN acc
    ELSE DigitsValueFrom(text, i + 1, acc * 10 + DigitValue(text[i]))

\* parseInt(text): an optional sign, then the longest run of decimal digits;
\* what follows the run is ignored, and NaN results when the run is empty.
parseInt(text) ==
    LET signed == Len(text) >= 1 /\ text[1] \in {"-", "+"}
        first == IF signed THEN 2 ELSE 1
        magnitude == DigitsValueFrom(text, first, 0)
    IN  IF first > Len(text) \/ ~IsDigit(text[first]) THEN NaN
        ELSE IF signed /\ text[1] = "-" THEN Num(0 - magnitude)
        ELSE Num(magnitude)

\* `searchParams.get('years') || '30'`, parsed.
YearsOf(param) ==
    parseInt(IF param = NoParam \/ param.text = <<>> THEN <<"3", "0">> ELSE param.text)

\* `years < 5 || years > 30`: both comparisons are false for NaN.
YearsOutOfRange(years) == years # NaN /\ (years.n < 5 \/ years.n > 30)

\* Characters of a `years` parameter.
YearsChars == {"0", "3", "5", "a", "-", "."}

YearsTexts == UNION {[1..k -> YearsChars] : k \in 0..MaxYearsLen}

YearsParams == {NoParam} \cup {Str(t) : t \in YearsTexts}

\* The `topic` query parameter: a configured topic, absent, or not configured.
RequestTopics == TOPICS \cup {"", "unknown"}

RdInit ==
    /\ rdPc = "idle"
    /\ rdTopic = DEFAULT_TOPIC
    /\ rdNodes = NotRead
    /\ rdEdges = NotRead
    /\ rdYears = [param |-> NoParam, value |-> YearsOf(NoParam)]
    /\ rdStatus = 0

\* A request arrives: the two validations, then `await clientPromise` and
\* Promise.all issues both finds.
GET(topic, param) ==
    /\ rdPc = "idle"
    /\ rdTopic' = topic
    /\ rdYears' = [param |-> param, value |-> YearsOf(param)]
    /\ IF topic \notin TOPICS \/ YearsOutOfRange(YearsOf(param))
       THEN rdPc' = "done" /\ rdStatus' = 400
       ELSE rdPc' = "reading" /\ rdStatus' = 0
    /\ UNCHANGED <<rdNodes, rdEdges>>
    /\ UNCHANGED <<fetchVars, trlVars, nnVars, neVars, ingVars, viewVars, filterVars, delVars>>

\* A request for a configured topic arrives; Promise.all issues both finds.
StartRead(topic) ==
    /\ rdPc = "idle"
    /\ rdPc' = "reading"
    /\ rdTopic' = topic
    /\ rdYears' = [param |-> NoParam, value |-> YearsOf(NoParam)]
    /\ UNCHANGED <<rdNodes, rdEdges, rdStatus>>
    /\ UNCHANGED <<fetchVars, trlVars, nnVars, neVars, ingVars, viewVars, filterVars, delVars>>

\* nodesCollection.find({}).toArray() is served.
ReadNodes ==
    /\ rdPc = "reading"
    /\ ~rdNodes.got
    /\ rdNodes' = [got |-> TRUE, docs |-> store[DbName(rdTopic)].nodes]
    /\ rdPc' = IF rdEdges.got THEN "done" ELSE "reading"
    /\ UNCHANGED <<rdTopic, rdEdges, rdYears, rdStatus>>
    /\ UNCHANGED <<fetchVars, trlVars, nnVars, neVars, ingVars, viewVars, filterVars, delVars>>

\* edgesCollection.find({}).toArray() is served.
ReadEdges ==
    /\ rdPc = "reading"
    /\ ~rdEdges.got
    /\ rdEdges' = [got |-> TRUE, docs |-> store[DbName(rdTopic)].edges]
    /\ rdPc' = IF rdNodes.got THEN "done" ELSE "reading"
    /\ UNCHANGED <<rdTopic, rdNodes, rdYears, rdStatus>>
    /\ UNCHANGED <<fetchVars, trlVars, nnVars, neVars, ingVars, viewVars, filterVars, delVars>>

(***************************************************************************)
(* TechTree component: view state, handlers, effects and layout calls      *)
(*                                                                         *)
(* One action is one event with the renders and effects that follow it     *)
(* before the next event is taken.  Positions, the legend, options and     *)
(* panel toggles are left out: no handler or effect below reads them.      *)
(***************************************************************************)
NoSelection == "undefined"      \* useState<UiNode | undefined>(undefined)
NoAnchor == "null"              \* useState<string | null>(null)
ALL_CATEGORY == "All"
NoHighlight == [nodeIds |-> {}, edgeIds |-> {}]

\* GroupingMode of lib/types.
GroupingModes == {"None", "Category"}

\* ---- the graphs served by GET /api/tech-tree ----
TreeNode(id, label, category) == [id |-> id, label |-> label, category |-> category]

EmptyGraph == [nodes |-> <<>>, edges |-> <<>>]

\* The graph in the response body; category "" stands for a node without one.
GraphOf(tree) ==
    IF tree = TreeOf("nuclear")
    THEN [nodes |-> <<TreeNode("n1", <<"A", "b">>, "Reactor"),
                      TreeNode("n2", <<"c">>, "")>>,
          edges |-> <<NormalizedEdge("n1", "n2")>>]
    ELSE IF tree = TreeOf("fossil_fuels")
    THEN [nodes |-> <<TreeNode("n1", <<"B">>, "Fuel"),
                      TreeNode("f2", <<"c">>, "Fuel")>>,
          edges |-> <<NormalizedEdge("f2", "n1")>>]
    ELSE EmptyGraph

\* What the user can type into the search box.
SearchValues == {<<>>, <<"b">>}

IdsOf(ns) == {ns[i].id : i \in 1..Len(ns)}

\* useMemo uniqueCategories, as a set.
uniqueCategories(tree) ==
    IF tree = NoTree THEN {}
    ELSE {ALL_CATEGORY} \cup
         {c \in {GraphOf(tree).nodes[i].category : i \in 1..Len(GraphOf(tree).nodes)} : c # ""}

\* Mutant: only the edges that leave the node are followed.
findConnectedElements_OnlyOutgoing(nodeId, allEdges) ==
    LET leaving == {i \in 1..Len(allEdges) : allEdges[i].source = nodeId}
    IN  [nodeIds |-> {nodeId} \cup {allEdges[i].target : i \in leaving},
         edgeIds |-> {allEdges[i].id : i \in leaving}]

\* findConnectedElements(nodeId, allEdges)
findConnectedElements(nodeId, allEdges) ==
    LET touching == {i \in 1..Len(allEdges) :
                        allEdges[i].source = nodeId \/ allEdges[i].target = nodeId}
    IN  [nodeIds |-> {nodeId}
                     \cup {allEdges[i].target : i \in {j \in touching : allEdges[j].source = nodeId}}
                     \cup {allEdges[i].source : i \in {j \in touching : allEdges[j].target = nodeId}},
         edgeIds |-> {allEdges[i].id : i \in touching}]

\* Mutant: an edge is kept when its source is in the category.
CategoryFilter_KeepsOutgoing(graph, category) ==
    IF category = ALL_CATEGORY THEN graph
    ELSE LET inCat == {graph.nodes[i].id :
                          i \in {j \in 1..Len(graph.nodes) : graph.nodes[j].category = category}}
         IN  [nodes |-> SelectSeq(graph.nodes, LAMBDA n : n.category = category),
              edges |-> SelectSeq(graph.edges, LAMBDA e : e.source \in inCat)]

\* The category filter at the head of loadLayout.
CategoryFilter(graph, category) ==
    IF category = ALL_CATEGORY THEN graph
    ELSE LET inCat == {graph.nodes[i].id :
                          i \in {j \in 1..Len(graph.nodes) : graph.nodes[j].category = category}}
         IN  [nodes |-> SelectSeq(graph.nodes, LAMBDA n : n.category = category),
              edges |-> SelectSeq(graph.edges,
                                  LAMBDA e : e.source \in inCat /\ e.target \in inCat)]

\* ---- getLayoutedElements (lib/elkjs) ----
Lower(c) == IF c = "A" THEN "a" ELSE IF c = "B" THEN "b" ELSE IF c = "C" THEN "c" ELSE c

\* label.toLowerCase().includes(term.toLowerCase())
LabelContains(label, term) ==
    \E off \in 0..(Len(label) - Len(term)) :
        \A k \in 1..Len(term) : Lower(label[off + k]) = Lower(term[k])

\* A rendered node or edge; `highlighted` is the emphasis the style effect sets.
UiNode(n) == [id |-> n.id, label |-> n.label, category |-> n.category,
              highlighted |-> FALSE]
UiEdge(e) == [id |-> e.id, source |-> e.source, target |-> e.target,
              highlighted |-> FALSE]

MapSeq(Op(_), s) == [i \in 1..Len(s) |-> Op(s[i])]

\* The nodes and edges it resolves with: the graph narrowed to the anchor's
\* neighbourhood when connected-only is on and to the nodes whose label
\* contains the search term when there is one, with the edges among them.
getLayoutedElements(mode, anchor, onlyConnected, term, graph) ==
    LET near == IF onlyConnected /\ anchor # NoAnchor
                THEN findConnectedElements(anchor, graph.edges).nodeIds
                ELSE IdsOf(graph.nodes)
        ns == SelectSeq(graph.nodes,
                        LAMBDA n : n.id \in near /\ (term = <<>> \/ LabelContains(n.label, term)))
        es == SelectSeq(graph.edges,
                        LAMBDA e : e.source \in IdsOf(ns) /\ e.target \in IdsOf(ns))
    IN  [layoutedNodes |-> MapSeq(UiNode, ns), layoutedEdges |-> MapSeq(UiEdge, es)]

\* ---- renders and effects ----
\* The dependency array of the layout effect.
LayoutDeps(mode, anchor, onlyConnected, term, tree, category) ==
    [groupingMode |-> mode, showingRelatedNodes |-> anchor,
     showOnlyConnected |-> onlyConnected, searchTerm |-> term,
     techTree |-> tree, selectedCategory |-> category]

Deps == LayoutDeps(groupingMode, showingRelatedNodes, showOnlyConnected, searchTerm,
                   techTree, selectedCategory)

\* What a loadLayout() call started with these dependencies resolves with.
LayoutResult(d) ==
    getLayoutedElements(d.groupingMode, d.showingRelatedNodes, d.showOnlyConnected,
                        d.searchTerm, CategoryFilter(GraphOf(d.techTree), d.selectedCategory))

\* The loadLayout() calls started by the renders that follow an event: `d1`
\* are the dependencies after the event's setters, `d2` after the search
\* effect's setSearchTerm(searchInput).  The effect runs in each render in
\* which a dependency differs from the render before, and returns at once
\* while there is no graph.
EffectCalls(d0, d1, d2) ==
    (IF d1 # d0 /\ d1.techTree # NoTree THEN <<d1>> ELSE <<>>)
    \o (IF d2 # d1 /\ d2.techTree # NoTree THEN <<d2>> ELSE <<>>)

\* Each call does setIsLoading(true) and then awaits getLayoutedElements.
StartLayouts(calls) ==
    /\ Len(calls) <= layoutBudget
    /\ layouts' = layouts \o calls
    /\ layoutBudget' = layoutBudget - Len(calls)
    /\ isLoading' = IF calls # <<>> THEN TRUE ELSE isLoading

\* The style effect, which runs when highlightedElements was set.
StyleEffect(hl) ==
    /\ uiNodes' = [i \in 1..Len(uiNodes) |->
                    [uiNodes[i] EXCEPT !.highlighted = uiNodes[i].id \in hl.nodeIds]]
    /\ uiEdges' = [i \in 1..Len(uiEdges) |->
                    [uiEdges[i] EXCEPT !.highlighted = uiEdges[i].id \in hl.edgeIds]]

\* The view state that the handlers set.
ViewState ==
    [selectedNode |-> selectedNode, highlightedElements |-> highlightedElements,
     groupingMode |-> groupingMode, showingRelatedNodes |-> showingRelatedNodes,
     showOnlyConnected |-> showOnlyConnected, searchInput |-> searchInput,
     searchTerm |-> searchTerm, selectedCategory |-> selectedCategory,
     isEditing |-> isEditing, currentTopic |-> currentTopic]

Event(name, arg) == [name |-> name, arg |-> arg, before |-> ViewState]

\* The component returns the error view while `error` is set.
ControlsRendered == error = NoError

\* ReactFlow with its nodes, and the KnowledgeBaseSelector, take the place of
\* the spinner.
FlowRendered == ControlsRendered /\ ~(isLoadingData \/ isLoading)

\* The state after the first render: the effects have run, the layout effect
\* returned because there is no graph yet.
ViewInitWith(budget) ==
    /\ isLoading = TRUE
    /\ uiNodes = <<>>
    /\ uiEdges = <<>>
    /\ selectedNode = NoSelection
    /\ highlightedElements = NoHighlight
    /\ groupingMode = "None"
    /\ showingRelatedNodes = NoAnchor
    /\ showOnlyConnected = FALSE
    /\ searchInput = <<>>
    /\ searchTerm = <<>>
    /\ isEditing = FALSE
    /\ selectedCategory = ALL_CATEGORY
    /\ layouts = <<>>
    /\ layoutBudget = budget
    /\ lastEvent = [name |-> "mount", arg |-> "", before |-> ViewState]
    /\ layoutRejected = FALSE

ViewInit == ViewInitWith(MaxLayouts)

\* Mutant: the layout effect also depends on the highlight sets.
handleShowDetails_Relayouts(nodeId) ==
    /\ FlowRendered
    /\ nodeId \in IdsOf(uiNodes)
    /\ selectedNode' = nodeId
    /\ highlightedElements' = findConnectedElements(nodeId, uiEdges)
    /\ StyleEffect(highlightedElements')
    /\ StartLayouts(IF highlightedElements' # highlightedElements THEN <<Deps>> ELSE <<>>)
    /\ lastEvent' = Event("handleShowDetails", nodeId)
    /\ UNCHANGED <<groupingMode, showingRelatedNodes, showOnlyConnected,
                   searchInput, searchTerm, isEditing, selectedCategory>>
    /\ UNCHANGED layoutRejected
    /\ UNCHANGED <<fetchVars, trlVars, nnVars, neVars, ingVars, rdVars, filterVars, delVars>>

\* ---- events ----
\* "Details" of a rendered node.
handleShowDetails(nodeId) ==
    /\ FlowRendered
    /\ nodeId \in IdsOf(uiNodes)
    /\ selectedNode' = nodeId
    /\ highlightedElements' = findConnectedElements(nodeId, uiEdges)
    /\ StyleEffect(highlightedElements')
    /\ lastEvent' = Event("handleShowDetails", nodeId)
    /\ UNCHANGED <<isLoading, groupingMode, showingRelatedNodes, showOnlyConnected,
                   searchInput, searchTerm, isEditing, selectedCategory, layouts,
                   layoutBudget>>
    /\ UNCHANGED layoutRejected
    /\ UNCHANGED <<fetchVars, trlVars, nnVars, neVars, ingVars, rdVars, filterVars, delVars>>

\* Mutant: "show connected" turns the flag on and sets no anchor.
handleShowConnected_FlagOnly(nodeId) ==
    /\ FlowRendered
    /\ nodeId \in IdsOf(uiNodes)
    /\ selectedNode' = nodeId
    /\ showOnlyConnected' = TRUE
    /\ searchInput' = <<>>
    /\ searchTerm' = <<>>
    /\ highlightedElements' = NoHighlight
    /\ StyleEffect(NoHighlight)
    /\ LET d1 == LayoutDeps(groupingMode, showingRelatedNodes, TRUE, <<>>, techTree,
                            selectedCategory)
       IN  StartLayouts(EffectCalls(Deps, d1, d1))
    /\ lastEvent' = Event("handleShowConnected", nodeId)
    /\ UNCHANGED <<groupingMode, showingRelatedNodes, isEditing, selectedCategory>>
    /\ UNCHANGED layoutRejected
    /\ UNCHANGED <<fetchVars, trlVars, nnVars, neVars, ingVars, rdVars, filterVars, delVars>>

\* "Show connected" of a rendered node.
handleShowConnected(nodeId) ==
    /\ FlowRendered
    /\ nodeId \in IdsOf(uiNodes)
    /\ selectedNode' = nodeId
    /\ showingRelatedNodes' = nodeId
    /\ showOnlyConnected' = TRUE
    /\ searchInput' = <<>>
    /\ searchTerm' = <<>>
    /\ highlightedElements' = NoHighlight
    /\ StyleEffect(NoHighlight)
    /\ LET d1 == LayoutDeps(groupingMode, nodeId, TRUE, <<>>, techTree, selectedCategory)
       IN  StartLayouts(EffectCalls(Deps, d1, d1))
    /\ lastEvent' = Event("handleShowConnected", nodeId)
    /\ UNCHANGED <<groupingMode, isEditing, selectedCategory>>
    /\ UNCHANGED layoutRejected
    /\ UNCHANGED <<fetchVars, trlVars, nnVars, neVars, ingVars, rdVars, filterVars, delVars>>

\* Mutant: the selection survives the change of grouping mode.
handleGroupingModeChange_KeepsSelection(mode) ==
    /\ ControlsRendered
    /\ groupingMode' = mode
    /\ showingRelatedNodes' = NoAnchor
    /\ showOnlyConnected' = FALSE
    /\ highlightedElements' = NoHighlight
    /\ StyleEffect(NoHighlight)
    /\ LET d1 == LayoutDeps(mode, NoAnchor, FALSE, searchTerm, techTree, selectedCategory)
           d2 == [d1 EXCEPT !.searchTerm = searchInput]
       IN  StartLayouts(EffectCalls(Deps, d1, d2))
    /\ searchTerm' = searchInput
    /\ lastEvent' = Event("handleGroupingModeChange", mode)
    /\ UNCHANGED <<selectedNode, searchInput, isEditing, selectedCategory>>
    /\ UNCHANGED layoutRejected
    /\ UNCHANGED <<fetchVars, trlVars, nnVars, neVars, ingVars, rdVars, filterVars, delVars>>

\* A grouping mode is chosen in the GroupSelector.
handleGroupingModeChange(mode) ==
    /\ ControlsRendered
    /\ groupingMode' = mode
    /\ selectedNode' = NoSelection
    /\ showingRelatedNodes' = NoAnchor
    /\ showOnlyConnected' = FALSE
    /\ highlightedElements' = NoHighlight
    /\ StyleEffect(NoHighlight)
    /\ LET d1 == LayoutDeps(mode, NoAnchor, FALSE, searchTerm, techTree, selectedCategory)
           d2 == [d1 EXCEPT !.searchTerm = searchInput]
       IN  StartLayouts(EffectCalls(Deps, d1, d2))
    /\ searchTerm' = searchInput
    /\ lastEvent' = Event("handleGroupingModeChange", mode)
    /\ UNCHANGED <<searchInput, isEditing, selectedCategory>>
    /\ UNCHANGED layoutRejected
    /\ UNCHANGED <<fetchVars, trlVars, nnVars, neVars, ingVars, rdVars, filterVars, delVars>>

\* Mutant: reset leaves the category filter alone.
handleReset_KeepsCategory ==
    /\ ControlsRendered
    /\ selectedNode' = NoSelection
    /\ showingRelatedNodes' = NoAnchor
    /\ showOnlyConnected' = FALSE
    /\ searchInput' = <<>>
    /\ searchTerm' = <<>>
    /\ highlightedElements' = NoHighlight
    /\ StyleEffect(NoHighlight)
    /\ LET d1 == LayoutDeps(groupingMode, NoAnchor, FALSE, <<>>, techTree, selectedCategory)
       IN  StartLayouts(EffectCalls(Deps, d1, d1))
    /\ lastEvent' = Event("handleReset", "")
    /\ UNCHANGED <<groupingMode, isEditing, selectedCategory>>
    /\ UNCHANGED layoutRejected
    /\ UNCHANGED <<fetchVars, trlVars, nnVars, neVars, ingVars, rdVars, filterVars, delVars>>

\* The reset button of the GroupSelector.
handleReset ==
    /\ ControlsRendered
    /\ selectedNode' = NoSelection
    /\ showingRelatedNodes' = NoAnchor
    /\ showOnlyConnected' = FALSE
    /\ searchInput' = <<>>
    /\ searchTerm' = <<>>
    /\ selectedCategory' = ALL_CATEGORY
    /\ highlightedElements' = NoHighlight
    /\ StyleEffect(NoHighlight)
    /\ LET d1 == LayoutDeps(groupingMode, NoAnchor, FALSE, <<>>, techTree, ALL_CATEGORY)
       IN  StartLayouts(EffectCalls(Deps, d1, d1))
    /\ lastEvent' = Event("handleReset", "")
    /\ UNCHANGED <<groupingMode, isEditing>>
    /\ UNCHANGED layoutRejected
    /\ UNCHANGED <<fetchVars, trlVars, nnVars, neVars, ingVars, rdVars, filterVars, delVars>>

\* Mutant: a change of the search box leaves the highlight sets alone.
handleSearchChange_KeepsHighlight(value) ==
    /\ ControlsRendered
    /\ searchInput' = value
    /\ selectedNode' = NoSelection
    /\ showingRelatedNodes' = NoAnchor
    /\ showOnlyConnected' = FALSE
    /\ LET d1 == LayoutDeps(groupingMode, NoAnchor, FALSE, searchTerm, techTree,
                            selectedCategory)
           d2 == [d1 EXCEPT !.searchTerm = value]
       IN  StartLayouts(EffectCalls(Deps, d1, d2))
    /\ searchTerm' = value
    /\ lastEvent' = Event("handleSearchChange", value)
    /\ UNCHANGED <<uiNodes, uiEdges, highlightedElements, groupingMode, isEditing,
                   selectedCategory>>
    /\ UNCHANGED layoutRejected
    /\ UNCHANGED <<fetchVars, trlVars, nnVars, neVars, ingVars, rdVars, filterVars, delVars>>

\* The search box changes to `value`; the search effect then copies the input
\* to the search term.
handleSearchChange(value) ==
    /\ ControlsRendered
    /\ searchInput' = value
    /\ selectedNode' = NoSelection
    /\ showingRelatedNodes' = NoAnchor
    /\ showOnlyConnected' = FALSE
    /\ highlightedElements' = NoHighlight
    /\ StyleEffect(NoHighlight)
    /\ LET d1 == LayoutDeps(groupingMode, NoAnchor, FALSE, searchTerm, techTree,
                            selectedCategory)
           d2 == [d1 EXCEPT !.searchTerm = value]
       IN  StartLayouts(EffectCalls(Deps, d1, d2))
    /\ searchTerm' = value
    /\ lastEvent' = Event("handleSearchChange", value)
    /\ UNCHANGED <<groupingMode, isEditing, selectedCategory>>
    /\ UNCHANGED layoutRejected
    /\ UNCHANGED <<fetchVars, trlVars, nnVars, neVars, ingVars, rdVars, filterVars, delVars>>

\* onCategoryChange={setSelectedCategory} with one of the offered categories.
setSelectedCategory(category) ==
    /\ ControlsRendered
    /\ category \in uniqueCategories(techTree)
    /\ selectedCategory' = category
    /\ LET d1 == [Deps EXCEPT !.selectedCategory = category]
           d2 == [d1 EXCEPT !.searchTerm = searchInput]
       IN  StartLayouts(EffectCalls(Deps, d1, d2))
    /\ searchTerm' = searchInput
    /\ lastEvent' = Event("setSelectedCategory", category)
    /\ UNCHANGED <<uiNodes, uiEdges, selectedNode, highlightedElements, groupingMode,
                   showingRelatedNodes, showOnlyConnected, searchInput, isEditing>>
    /\ UNCHANGED layoutRejected
    /\ UNCHANGED <<fetchVars, trlVars, nnVars, neVars, ingVars, rdVars, filterVars, delVars>>

\* Mutant: edit mode is entered whatever the answer to the prompt.
handleEnterEditMode_IgnoresCheck(passed) ==
    /\ ControlsRendered
    /\ isEditing' = TRUE
    /\ lastEvent' = Event("handleEnterEditMode", passed)
    /\ UNCHANGED <<isLoading, uiNodes, uiEdges, selectedNode, highlightedElements,
                   groupingMode, showingRelatedNodes, showOnlyConnected, searchInput,
                   searchTerm, selectedCategory, layouts, layoutBudget>>
    /\ UNCHANGED layoutRejected
    /\ UNCHANGED <<fetchVars, trlVars, nnVars, neVars, ingVars, rdVars, filterVars, delVars>>

\* The password prompt is answered; `passed` is the comparison with
\* NEXT_PUBLIC_ADMIN_PASSWORD.
handleEnterEditMode(passed) ==
    /\ ControlsRendered
    /\ isEditing' = IF passed THEN TRUE ELSE isEditing
    /\ lastEvent' = Event("handleEnterEditMode", passed)
    /\ UNCHANGED <<isLoading, uiNodes, uiEdges, selectedNode, highlightedElements,
                   groupingMode, showingRelatedNodes, showOnlyConnected, searchInput,
                   searchTerm, selectedCategory, layouts, layoutBudget>>
    /\ UNCHANGED layoutRejected
    /\ UNCHANGED <<fetchVars, trlVars, nnVars, neVars, ingVars, rdVars, filterVars, delVars>>

\* onExit of the EditInterface; `confirmed` is the answer to window.confirm.
handleExitEditMode(confirmed) ==
    /\ ControlsRendered
    /\ isEditing
    /\ isEditing' = IF confirmed THEN FALSE ELSE isEditing
    /\ lastEvent' = Event("handleExitEditMode", confirmed)
    /\ UNCHANGED <<isLoading, uiNodes, uiEdges, selectedNode, highlightedElements,
                   groupingMode, showingRelatedNodes, showOnlyConnected, searchInput,
                   searchTerm, selectedCategory, layouts, layoutBudget>>
    /\ UNCHANGED layoutRejected
    /\ UNCHANGED <<fetchVars, trlVars, nnVars, neVars, ingVars, rdVars, filterVars, delVars>>

\* A topic is picked in the KnowledgeBaseSelector: Home re-renders TechTree
\* with the new prop, the same component instance keeps its state, and the
\* effect of useTechTree starts the fetch.
onTopicChange(topic) ==
    /\ FlowRendered
    /\ SetTopicHook(topic)
    /\ lastEvent' = Event("onTopicChange", topic)
    /\ UNCHANGED <<isLoading, uiNodes, uiEdges, selectedNode, highlightedElements,
                   groupingMode, showingRelatedNodes, showOnlyConnected, searchInput,
                   searchTerm, isEditing, selectedCategory, layouts, layoutBudget>>
    /\ UNCHANGED layoutRejected
    /\ UNCHANGED <<trlVars, nnVars, neVars, ingVars, rdVars, filterVars, delVars>>

\* The fetch of useTechTree delivers the graph: setTechTree(data) gives the
\* layout effect a new graph object, so loadLayout() is called.
TreeLoaded(i) ==
    /\ JsonSettleHook(i, TRUE)
    /\ StartLayouts(<<[Deps EXCEPT !.techTree = techTree']>>)
    /\ UNCHANGED <<uiNodes, uiEdges, selectedNode, highlightedElements, groupingMode,
                   showingRelatedNodes, showOnlyConnected, searchInput, searchTerm,
                   isEditing, selectedCategory, lastEvent>>
    /\ UNCHANGED layoutRejected
    /\ UNCHANGED <<trlVars, nnVars, neVars, ingVars, rdVars, filterVars, delVars>>

RemoveAt(s, i) == SubSeq(s, 1, i - 1) \o SubSeq(s, i + 1, Len(s))

\* `await getLayoutedElements(...)` of one of the outstanding calls settles,
\* in any order.  Resolved: setNodes, setEdges, setIsLoading(false).
\* Rejected: loadLayout() rejects and sets nothing.
LayoutSettle(i, resolved) ==
    /\ i \in 1..Len(layouts)
    /\ layouts' = RemoveAt(layouts, i)
    /\ IF resolved
       THEN /\ uiNodes' = LayoutResult(layouts[i]).layoutedNodes
            /\ uiEdges' = LayoutResult(layouts[i]).layoutedEdges
            /\ isLoading' = FALSE
       ELSE UNCHANGED <<uiNodes, uiEdges, isLoading>>
    /\ UNCHANGED <<selectedNode, highlightedElements, groupingMode,
                   showingRelatedNodes, showOnlyConnected, searchInput, searchTerm,
                   isEditing, selectedCategory, layoutBudget, lastEvent>>
    /\ layoutRejected' = (layoutRejected \/ ~resolved)
    /\ UNCHANGED <<fetchVars, trlVars, nnVars, neVars, ingVars, rdVars, filterVars, delVars>>

(***************************************************************************)
(* The category filter and findConnectedElements on their own              *)
(***************************************************************************)
\* ---- inputs of the category filter ----
FilterNodeIds == {"A", "B", "C"}
FilterCategories == {"cat1", "cat2"}

FilterNodes ==
    {TreeNode(id, <<>>, c) : id \in FilterNodeIds, c \in FilterCategories}

FilterEdges == {NormalizedEdge(s, t) : s \in FilterNodeIds, t \in FilterNodeIds}

CfIdle ==
    /\ cfPc = "idle"
    /\ cfGraph = EmptyGraph
    /\ cfCategory = ALL_CATEGORY
    /\ cfResult = EmptyGraph

CfInit ==
    /\ cfPc = "call"
    /\ cfGraph \in [nodes : SeqsUpTo(FilterNodes, MaxGraphNodes),
                    edges : SeqsUpTo(FilterEdges, MaxGraphEdges)]
    /\ cfCategory \in {ALL_CATEGORY} \cup FilterCategories
    /\ cfResult = EmptyGraph

\* ---- inputs of findConnectedElements ----
EdgeNames == <<"e1", "e2", "e3", "e4">>

\* Edge arrays whose i-th edge is named EdgeNames[i].
NamedEdges(ends) ==
    [i \in 1..Len(ends) |->
        [id |-> EdgeNames[i], source |-> ends[i][1], target |-> ends[i][2]]]

FcIdle ==
    /\ fcPc = "idle"
    /\ fcNodeId = ""
    /\ fcEdges = <<>>
    /\ fcResult = NoHighlight

FcInit ==
    /\ fcPc = "call"
    /\ fcNodeId \in FilterNodeIds
    /\ fcEdges \in {NamedEdges(ends) :
                       ends \in SeqsUpTo(FilterNodeIds \X FilterNodeIds, MaxConnEdges)}
    /\ fcResult = NoHighlight

\* loadLayout's filter applied to one graph and one selected category.
CallCategoryFilter ==
    /\ cfPc = "call"
    /\ cfResult' = CategoryFilter(cfGraph, cfCategory)
    /\ cfPc' = "returned"
    /\ UNCHANGED <<cfGraph, cfCategory, fcPc, fcNodeId, fcEdges, fcResult>>
    /\ UNCHANGED <<fetchVars, trlVars, nnVars, neVars, ingVars, rdVars, viewVars, delVars>>

CallFindConnectedElements ==
    /\ fcPc = "call"
    /\ fcResult' = findConnectedElements(fcNodeId, fcEdges)
    /\ fcPc' = "returned"
    /\ UNCHANGED <<fcNodeId, fcEdges, cfPc, cfGraph, cfCategory, cfResult>>
    /\ UNCHANGED <<fetchVars, trlVars, nnVars, neVars, ingVars, rdVars, viewVars, delVars>>

(***************************************************************************)
(* Specifications                                                          *)
(***************************************************************************)
\* normalizeTechTreeEdges on one edge array, then on its own output, and the
\* check of the counts.
EdgesNext ==
    \/ CallNormalizeEdges
    \/ CallNormalizeEdgesAgain
    \/ CallEdgeSanityCheck

FetchNext ==
    \/ \E t \in TOPICS : SetTopic(t)
    \/ \E i \in 1..MaxFetches, o \in {"ok", "notok", "reject"} : FetchSettle(i, o)
    \/ \E i \in 1..MaxFetches, p \in BOOLEAN : JsonSettle(i, p)

StoreNext ==
    \/ \E ok \in BOOLEAN : Connect(ok)
    \/ \E ok \in BOOLEAN : Ping(ok)
    \/ \E ok \in BOOLEAN : DeleteNodes(ok)
    \/ \E ok \in BOOLEAN : DeleteEdges(ok)
    \/ \E ok \in BOOLEAN, w \in 0..MaxDocNodes : InsertNodes(ok, w)
    \/ \E ok \in BOOLEAN, w \in 0..(MaxDocEdges * MaxTargets) : InsertEdges(ok, w)
    \/ Close

\* One run of either seed script on any seed document.
IngestNext ==
    \/ \E script \in Scripts, uriSet \in BOOLEAN :
          \E doc \in DocsOf(script) : RunMain(script, doc, uriSet)
    \/ StoreNext

(***************************************************************************)
(* DELETE of the edge route: requests that remove one edge of a topic      *)
(***************************************************************************)
\* The store after an earlier seed: two nodes and the two edges between them.
SeededDb(db) ==
    [nodes |-> <<MkNode("n1", Str(<<"4">>), Missing, Missing, Refs(<<db>>)),
                 MkNode("n2", Str(<<"4">>), Missing, Missing, Refs(<<db>>))>>,
     edges |-> <<NormalizedEdge("n1", "n2"), NormalizedEdge("n2", "n1")>>]

SeededStore == [db \in DbNames |-> SeededDb(db)]

\* The `topic` query parameter: a configured topic, absent, or not configured.
DelTopics == RequestTopics

\* params.id: the id of a stored edge, or of none.
DelEdgeIds == {EdgeId("n1", "n2"), EdgeId("n2", "n1"), "nope"}

\* A request: where its handler is suspended, its inputs, the status of its
\* response (0: none yet) and, as history, the ids its deleteOne removed.
DelRequest(pc, topic, edgeId, status, removed) ==
    [pc |-> pc, topic |-> topic, edgeId |-> edgeId, status |-> status,
     removed |-> removed]

DelIdle == delReqs = [r \in 1..MaxDeletes |-> DelRequest("idle", "", "nope", 0, {})]

\* The ids of the documents of a collection.
DocIds(docs) == {docs[i].id : i \in 1..Len(docs)}

\* A request arrives: the topic check, then `await clientPromise` and the
\* findOne call are issued.
DELETE(r, topic, edgeId) ==
    /\ delReqs[r].pc = "idle"
    /\ delReqs' = [delReqs EXCEPT ![r] =
           IF topic \notin TOPICS
           THEN DelRequest("done", topic, edgeId, 400, {})
           ELSE DelRequest("findOne", topic, edgeId, 0, {})]
    /\ UNCHANGED <<fetchVars, trlVars, nnVars, neVars, ingVars, rdVars, viewVars, filterVars>>

\* `await edgesCollection.findOne({ id: edgeId })` settles.
FindOneSettle(r, ok) ==
    /\ delReqs[r].pc = "findOne"
    /\ LET q == delReqs[r]
           existing == q.edgeId \in DocIds(store[DbName(q.topic)].edges)
       IN  delReqs' = [delReqs EXCEPT ![r] =
               IF ~ok THEN DelRequest("done", q.topic, q.edgeId, 500, {})
               ELSE IF ~existing THEN DelRequest("done", q.topic, q.edgeId, 404, {})
               ELSE DelRequest("deleteOne", q.topic, q.edgeId, 0, {})]
    /\ UNCHANGED <<fetchVars, trlVars, nnVars, neVars, ingVars, rdVars, viewVars, filterVars>>

\* deleteOne removes the first document with the id, if there is one.
DeleteOne(docs, id) ==
    LET hits == {i \in 1..Len(docs) : docs[i].id = id}
    IN  IF hits = {} THEN docs
        ELSE RemoveAt(docs, CHOOSE i \in hits : \A j \in hits : i <= j)

\* `await edgesCollection.deleteOne({ id: edgeId })` settles; the response
\* is 200 whatever the call reports as deleted.
DeleteOneSettle(r, ok) ==
    /\ delReqs[r].pc = "deleteOne"
    /\ LET q == delReqs[r]
           db == DbName(q.topic)
           left == DeleteOne(store[db].edges, q.edgeId)
       IN  IF ok
           THEN /\ store' = [store EXCEPT ![db].edges = left]
                /\ delReqs' = [delReqs EXCEPT ![r] =
                       DelRequest("done", q.topic, q.edgeId, 200,
                                  DocIds(store[db].edges) \ DocIds(left))]
           ELSE /\ delReqs' = [delReqs EXCEPT ![r] =
                       DelRequest("done", q.topic, q.edgeId, 500, {})]
                /\ UNCHANGED store
    /\ UNCHANGED <<ingPc, ingScript, ingDoc, ingNodes, ingEdges, ingThrown, ingWarned,
                   exitCode, clientOpen, storeLog, ingFailed>>
    /\ UNCHANGED <<fetchVars, trlVars, nnVars, neVars, rdVars, viewVars, filterVars>>

\* Concurrent requests to the edge route.
DeleteNext ==
    \/ \E r \in 1..MaxDeletes, topic \in DelTopics, edgeId \in DelEdgeIds :
          DELETE(r, topic, edgeId)
    \/ \E r \in 1..MaxDeletes, ok \in BOOLEAN : FindOneSettle(r, ok)
    \/ \E r \in 1..MaxDeletes, ok \in BOOLEAN : DeleteOneSettle(r, ok)

\* The documents of the runs that a reader is interleaved with.
ReaderDocs(script) ==
    {doc \in DocsOf(script) : doc.parses /\ Len(doc.nodes) = 1 /\ Len(doc.edges) = 1}

\* One run of either seed script, and one request to the simulation route.
SeedReadNext ==
    \/ \E script \in Scripts : \E doc \in ReaderDocs(script) : RunMain(script, doc, TRUE)
    \/ StoreNext
    \/ \E t \in TOPICS : StartRead(t)
    \/ ReadNodes
    \/ ReadEdges

\* One request to the simulation route.
SimulationNext ==
    \/ \E topic \in RequestTopics, param \in YearsParams : GET(topic, param)
    \/ ReadNodes
    \/ ReadEdges

\* The page: Home with TechTree, its graph fetched by useTechTree.
ViewNext ==
    \/ \E id \in IdsOf(uiNodes) : handleShowDetails(id)
    \/ \E id \in IdsOf(uiNodes) : handleShowConnected(id)
    \/ \E mode \in GroupingModes : handleGroupingModeChange(mode)
    \/ handleReset
    \/ \E value \in SearchValues : handleSearchChange(value)
    \/ \E category \in uniqueCategories(techTree) : setSelectedCategory(category)
    \/ \E passed \in BOOLEAN : handleEnterEditMode(passed)
    \/ \E confirmed \in BOOLEAN : handleExitEditMode(confirmed)
    \/ \E t \in TOPICS : onTopicChange(t)
    \/ \E i \in 1..MaxFetches, o \in {"ok", "notok"} : FetchSettle(i, o)
    \/ \E i \in 1..MaxFetches : JsonSettle(i, FALSE)
    \/ \E i \in 1..MaxFetches : TreeLoaded(i)
    \/ \E i \in 1..MaxLayouts, resolved \in BOOLEAN : LayoutSettle(i, resolved)

\* A session on the default topic in which the fetch and every layout call
\* succeed, with a longer run of layout calls.
BrowseNext ==
    \/ \E id \in IdsOf(uiNodes) : handleShowDetails(id)
    \/ \E id \in IdsOf(uiNodes) : handleShowConnected(id)
    \/ \E mode \in GroupingModes : handleGroupingModeChange(mode)
    \/ handleReset
    \/ \E value \in SearchValues : handleSearchChange(value)
    \/ \E category \in uniqueCategories(techTree) : setSelectedCategory(category)
    \/ \E passed \in BOOLEAN : handleEnterEditMode(passed)
    \/ \E confirmed \in BOOLEAN : handleExitEditMode(confirmed)
    \/ FetchSettle(1, "ok")
    \/ TreeLoaded(1)
    \/ \E i \in 1..MaxBurst : LayoutSettle(i, TRUE)

InitFetch == FetchInit /\ TrlIdle /\ NnIdle /\ NeIdle /\ IngInit /\ RdInit /\ ViewInit /\ CfIdle /\ FcIdle
    /\ DelIdle
SpecFetch == InitFetch /\ [][FetchNext]_vars

InitTrl == TrlInit /\ FetchIdle /\ NnIdle /\ NeIdle /\ IngInit /\ RdInit /\ ViewInit /\ CfIdle /\ FcIdle
    /\ DelIdle
SpecTrl == InitTrl /\ [][CallToSingleTrl]_vars

InitNodes == NnInit /\ FetchIdle /\ TrlIdle /\ NeIdle /\ IngInit /\ RdInit /\ ViewInit /\ CfIdle /\ FcIdle
    /\ DelIdle
SpecNodes == InitNodes /\ [][CallNormalizeNodes]_vars

InitEdges == NeInit /\ FetchIdle /\ TrlIdle /\ NnIdle /\ IngInit /\ RdInit /\ ViewInit /\ CfIdle /\ FcIdle
    /\ DelIdle
SpecEdges == InitEdges /\ [][EdgesNext]_vars

InitIngest == IngInit /\ RdInit /\ FetchIdle /\ TrlIdle /\ NnIdle /\ NeIdle /\ ViewInit /\ CfIdle /\ FcIdle
    /\ DelIdle
SpecIngest == InitIngest /\ [][IngestNext]_vars

\* The same runs, in which every await of the store settles.
SpecIngestFair == InitIngest /\ [][IngestNext]_vars /\ WF_vars(StoreNext)

SpecSeedRead == InitIngest /\ [][SeedReadNext]_vars

SpecSimulation == InitIngest /\ [][SimulationNext]_vars

InitDelete ==
    DelIdle /\ IngInitWith(SeededStore) /\ RdInit /\ FetchIdle /\ TrlIdle /\ NnIdle
    /\ NeIdle /\ ViewInit /\ CfIdle /\ FcIdle
SpecDelete == InitDelete /\ [][DeleteNext]_vars

InitView == FetchInit /\ TrlIdle /\ NnIdle /\ NeIdle /\ IngInit /\ RdInit /\ ViewInit /\ CfIdle /\ FcIdle
    /\ DelIdle
SpecView == InitView /\ [][ViewNext]_vars

InitBrowse ==
    FetchInit /\ TrlIdle /\ NnIdle /\ NeIdle /\ IngInit /\ RdInit /\ ViewInitWith(MaxBurst) /\ CfIdle /\ FcIdle
    /\ DelIdle
SpecBrowse == InitBrowse /\ [][BrowseNext]_vars

InitCategoryFilter ==
    CfInit /\ FcIdle /\ FetchIdle /\ TrlIdle /\ NnIdle /\ NeIdle /\ IngInit /\ RdInit
    /\ ViewInit
    /\ DelIdle
SpecCategoryFilter == InitCategoryFilter /\ [][CallCategoryFilter]_vars

InitConnected ==
    FcInit /\ CfIdle /\ FetchIdle /\ TrlIdle /\ NnIdle /\ NeIdle /\ IngInit /\ RdInit
    /\ ViewInit
    /\ DelIdle
SpecConnected == InitConnected /\ [][CallFindConnectedElements]_vars

(***************************************************************************)
(* Properties                                                              *)
(***************************************************************************)

\* C1: last-topic-wins. Once every fetch has completed (here: each one
\* successfully), the in-memory graph is the one fetched for the active topic.
C1_LastTopicWins ==
    (\A i \in 1..Len(fetches) : fetches[i].pc = "applied")
        => techTree = TreeOf(currentTopic)

\* ---- C2, C3, C5: a run of a seed script ----
\* A fatal finding of the run on this document: the source does not parse, a
\* node has no reference, or the edge count differs from the expected count.
FatalFinding(script, doc) ==
    \/ ~doc.parses
    \/ \E i \in 1..Len(doc.nodes) : LacksReferences(doc.nodes[i])
    \/ /\ script = "fossil_fuels"
       /\ LET r == normalizeTechTreeEdges(doc.edges)
          IN  Len(r.edges) # r.expectedEdgeCount

\* C2: in a run in which a fatal finding occurs, no delete and no insert is
\* issued against the store, and the store holds what it held before the run.
C2_FatalRunNeverWrites ==
    (ingPc # "idle" /\ FatalFinding(ingScript, ingDoc))
        => /\ storeLog = <<>>
           /\ store = StoreAtStart

\* A run has ended on the reference check, which named a node.
C2_Witness ==
    /\ ingPc = "rejected"
    /\ ingThrown.check = "Reference"
    /\ Len(ingThrown.ids) = 1
    /\ Len(ingDoc.nodes) = 2

\* C3: a reader of the topic's two collections that runs concurrently with a
\* seed run observes the complete old graph or the complete new graph.
C3_ReaderSeesOldOrNew ==
    rdPc = "done" =>
        LET seen == [nodes |-> rdNodes.docs, edges |-> rdEdges.docs]
            db == DbName(rdTopic)
        IN  \/ seen = StoreAtStart[db]
            \/ /\ ingPc \notin {"idle", "rejected"}
               /\ DbName(ingScript) = db
               /\ seen = [nodes |-> ingNodes, edges |-> ingEdges]

\* C5: a relation record without a source is no error: a run whose input
\* holds such a record and is otherwise valid does not end on a fatal finding.
C5_SourcelessRecordSkipped ==
    (/\ ingPc # "idle"
     /\ ingScript = "fossil_fuels"
     /\ ingDoc.parses
     /\ \A i \in 1..Len(ingDoc.nodes) : ~LacksReferences(ingDoc.nodes[i])
     /\ \E i \in 1..Len(ingDoc.edges) : NoSource(ingDoc.edges[i]))
        => ingThrown.check \in {"none", "MongoUri"}

\* ---- C11 .. C14: the integrity checks within a run ----
\* The node carries no reference citation: the list is absent or empty.
NoCitation(n) == "references" \notin DOMAIN n \/ n["references"] = <<>>

RECURSIVE IdsWithoutCitation(_)
IdsWithoutCitation(nodes) ==
    IF nodes = <<>> THEN <<>>
    ELSE (IF NoCitation(Head(nodes)) THEN <<Head(nodes)["id"]>> ELSE <<>>)
         \o IdsWithoutCitation(Tail(nodes))

\* The run got as far as the reference check: the document parsed and the
\* edge-count check did not throw.
ReachedReferenceCheck ==
    /\ ingPc # "idle"
    /\ ingDoc.parses
    /\ ingThrown.check \notin {"Parse", "EdgeCount"}

\* C11: the reference check ends the run with a fatal finding exactly when a
\* node of the input has an absent or empty reference list, and the finding
\* names each such node, in input order, and no other node.
C11_ReferenceFindingNamesAll ==
    ReachedReferenceCheck =>
        /\ (ingThrown.check = "Reference")
              <=> (\E i \in 1..Len(ingDoc.nodes) : NoCitation(ingDoc.nodes[i]))
        /\ ingThrown.check = "Reference"
              => ingThrown.ids = IdsWithoutCitation(ingDoc.nodes)

\* A run ended on the reference check for a document with one node without
\* the reference list and one with an empty list; both are named.
C11_Witness ==
    /\ ingPc = "rejected"
    /\ ingThrown.check = "Reference"
    /\ Len(ingDoc.nodes) = 2
    /\ "references" \notin DOMAIN ingDoc.nodes[1]
    /\ "references" \in DOMAIN ingDoc.nodes[2]
    /\ ingThrown.ids = <<"a", "b">>

\* The edges that the script hands to the store for the document.
EdgesToStore(script, doc) ==
    IF script = "fossil_fuels" THEN normalizeTechTreeEdges(doc.edges).edges
    ELSE doc.edges

\* The document passes the fatal checks of the script.
PassesFatalChecks(script, doc) ==
    /\ doc.parses
    /\ \A i \in 1..Len(doc.nodes) : ~NoCitation(doc.nodes[i])
    /\ script = "fossil_fuels" =>
          LET r == normalizeTechTreeEdges(doc.edges)
          IN  Len(r.edges) = r.expectedEdgeCount

EndpointIds(edges) ==
    {edges[i].source : i \in 1..Len(edges)} \cup {edges[i].target : i \in 1..Len(edges)}

NodeIds(nodes) == {nodes[i]["id"] : i \in 1..Len(nodes)}

\* C12: a run on a graph that passes the edge-count and reference checks
\* (with the connection string set) is not ended by the id consistency check,
\* whatever it finds: it goes on to the store, every node and every edge is
\* handed to the store, and a run in which every store call succeeds leaves
\* exactly those nodes and edges in the topic's database, dangling edges and
\* isolated nodes included.
C12_AdvisoryNeverBlocks ==
    (/\ ingPc # "idle"
     /\ PassesFatalChecks(ingScript, ingDoc)
     /\ ingThrown.check # "MongoUri")
        => /\ ingPc # "rejected"
           /\ ingThrown = NoThrow
           /\ ingWarned.ran
           /\ ingNodes = normalizeNodes(ingDoc.nodes)
           /\ ingEdges = EdgesToStore(ingScript, ingDoc)
           /\ (ingPc = "done" /\ exitCode = 0) =>
                 store[DbName(ingScript)] = [nodes |-> ingNodes, edges |-> ingEdges]

\* A run of the fossil-fuel script has replaced the store with a graph that
\* has an edge to an id that is no node and a node that no edge touches.
C12_Witness ==
    /\ ingPc = "done"
    /\ exitCode = 0
    /\ ingScript = "fossil_fuels"
    /\ ingWarned.ran
    /\ ingWarned.missingInNodes # {}
    /\ ingWarned.isolatedNodes # {}
    /\ EndpointIds(store[DbName(ingScript)].edges)
            \ NodeIds(store[DbName(ingScript)].nodes) # {}
    /\ NodeIds(store[DbName(ingScript)].nodes)
            \ EndpointIds(store[DbName(ingScript)].edges) # {}

\* What the run reported: the Error it threw, and the id consistency check's
\* log if that check ran.
ReportedFindings ==
    (IF ingThrown.check \in {"EdgeCount", "Reference"} THEN {ingThrown.check} ELSE {})
    \cup (IF ingWarned.ran THEN {"IdConsistency"} ELSE {})

\* C13: the three checks are independent: a run on a graph that violates
\* both the edge-count check and the reference check reports both fatal
\* findings, and the id consistency check reports whatever the other two
\* checks found.
C13_AllFindingsReported ==
    (ingPc # "idle" /\ ingDoc.parses) =>
        LET lacks == \E i \in 1..Len(ingDoc.nodes) : NoCitation(ingDoc.nodes[i])
            r == normalizeTechTreeEdges(ingDoc.edges)
            miscount == ingScript = "fossil_fuels" /\ Len(r.edges) # r.expectedEdgeCount
        IN  /\ (lacks /\ miscount) => {"EdgeCount", "Reference"} \subseteq ReportedFindings
            /\ "IdConsistency" \in ReportedFindings

\* C14: after a successful run of either script, every edge in the topic's
\* database has exactly the fields id, source and target, and its id is the
\* one derived from its source and target.
C14_StoredEdgesCanonical ==
    (ingPc = "done" /\ exitCode = 0) =>
        LET es == store[DbName(ingScript)].edges
        IN  \A i \in 1..Len(es) :
                /\ DOMAIN es[i] = {"id", "source", "target"}
                /\ es[i].id = EdgeId(es[i].source, es[i].target)

\* C4: the expectedCount returned by edge normalization equals the number of
\* edges it emits, for every record set.
C4_ExpectedEqualsEmitted ==
    nePc = "returned" => neExpected = Len(neOutput)

\* C6: two different ordered pairs (source, target) never produce the same
\* edge identifier.
C6_EdgeIdInjective ==
    nePc = "returned" =>
        \A i, j \in 1..Len(neOutput) :
            neOutput[i].id = neOutput[j].id
                => /\ neOutput[i].source = neOutput[j].source
                   /\ neOutput[i].target = neOutput[j].target

\* C7: the emitted edges hold at most one edge per ordered (source, target)
\* pair, and no two of them share an identifier.
C7_NoParallelEdges ==
    nePc = "returned" =>
        \A i, j \in 1..Len(neOutput) :
            i # j => /\ neOutput[i].id # neOutput[j].id
                     /\ <<neOutput[i].source, neOutput[i].target>>
                            # <<neOutput[j].source, neOutput[j].target>>

\* ---- C8: fan-out of a multi-target record ----
HasSource(rec) == "source" \in DOMAIN rec /\ rec["source"] # ""
IsMultiTarget(rec) == "targets" \in DOMAIN rec /\ "target" \notin DOMAIN rec

\* The number of edges the contract gives a record.
FanOutSize(rec) ==
    IF ~HasSource(rec) THEN 0
    ELSE IF "target" \in DOMAIN rec THEN 1
    ELSE IF "targets" \in DOMAIN rec THEN Len(rec["targets"])
    ELSE 0

RECURSIVE FanOutBefore(_, _)
FanOutBefore(recs, i) ==
    IF i <= 1 THEN 0 ELSE FanOutBefore(recs, i - 1) + FanOutSize(recs[i - 1])

\* The edges of record i are the next Len(targets) emitted edges, one per
\* listed target in order, each with the record's source.
FanOutInOrder(i) ==
    LET rec == neInput[i]
        off == FanOutBefore(neInput, i)
        n == Len(rec["targets"])
    IN  /\ off + n <= Len(neOutput)
        /\ Len(neOutput) = FanOutBefore(neInput, Len(neInput) + 1)
        /\ \A j \in 1..n :
              /\ neOutput[off + j].source = rec["source"]
              /\ neOutput[off + j].target = rec["targets"][j]

C9_FirstDigitRun ==
    trlPc = "returned" =>
        LET dflt == IF trlDefault = Undefined THEN <<"1">> ELSE trlDefault.text
            absent == trlValue.kind \in {"undefined", "null"}
            text == IF absent THEN <<>> ELSE StringOf(trlValue)
        IN  IF absent \/ ~(\E i \in 1..Len(text) : IsDigit(text[i]))
            THEN trlResult = dflt
            ELSE \E i, j \in 1..Len(text) :
                    /\ i <= j
                    /\ \A k \in 1..(i - 1) : ~IsDigit(text[k])
                    /\ \A k \in i..j : IsDigit(text[k])
                    /\ j = Len(text) \/ ~IsDigit(text[j + 1])
                    /\ trlResult = SubSeq(text, i, j)

\* A text with a two-digit run after a non-digit has been normalised.
C9_Witness ==
    /\ trlPc = "returned"
    /\ trlValue = Str(<<"x", "7", "9">>)
    /\ trlResult = <<"7", "9">>

\* ---- C10: normalizeNodes ----
IsDigitText(v) ==
    /\ v.kind = "string"
    /\ Len(v.text) >= 1
    /\ \A i \in 1..Len(v.text) : IsDigit(v.text[i])

\* C10: every output node has a non-empty digit-only current maturity; the
\* projected maturity is on the output exactly when it was on the input, and
\* is then normalised; every other attribute is unchanged.
C10_NodeNormalization ==
    nnPc = "returned" =>
        /\ Len(nnOutput) = Len(nnInput)
        /\ \A i \in 1..Len(nnInput) :
            LET src == nnInput[i]
                dst == nnOutput[i]
                others == DOMAIN src \ {TRL_CURRENT, TRL_PROJECTED}
            IN  /\ TRL_CURRENT \in DOMAIN dst
                /\ IsDigitText(dst[TRL_CURRENT])
                /\ (TRL_PROJECTED \in DOMAIN dst) <=> (TRL_PROJECTED \in DOMAIN src)
                /\ TRL_PROJECTED \in DOMAIN src =>
                      /\ IsDigitText(dst[TRL_PROJECTED])
                      /\ dst[TRL_PROJECTED].text
                            = toSingleTrl(src[TRL_PROJECTED], Undefined)
                /\ DOMAIN dst \ {TRL_CURRENT, TRL_PROJECTED} = others
                /\ \A k \in others : dst[k] = src[k]

\* An array with one node that has the projected field and one that has not
\* (nor a current maturity) has been normalised.
C10_Witness ==
    /\ nnPc = "returned"
    /\ Len(nnInput) = 2
    /\ TRL_PROJECTED \in DOMAIN nnInput[1]
    /\ TRL_PROJECTED \notin DOMAIN nnInput[2]
    /\ TRL_CURRENT \notin DOMAIN nnInput[2]
    /\ TRL_PROJECTED \notin DOMAIN nnOutput[2]
    /\ nnOutput[1][TRL_PROJECTED] = Str(<<"7">>)

\* ---- C15 .. C20: the view state of the TechTree component ----
\* C15: layout calls are coalesced. Of the layout calls outstanding at any
\* time only the oldest may have been started for inputs that are no longer
\* the current ones: no call is outstanding for an intermediate transition.
C15_LayoutCoalesced ==
    \A i \in 2..Len(layouts) : layouts[i] = Deps

\* The view state is the initial one but for grouping mode and edit mode.
ViewIsReset ==
    /\ selectedNode = NoSelection
    /\ ~showOnlyConnected
    /\ showingRelatedNodes = NoAnchor
    /\ highlightedElements = NoHighlight
    /\ searchTerm = <<>>
    /\ selectedCategory = ALL_CATEGORY

\* C16: after a change of the active topic the selection is none,
\* connected-only is off with no anchor, the highlight sets are empty, the
\* search term is empty and the category filter is "All".
C16_TopicChangeResetsView ==
    lastEvent.name = "onTopicChange" => ViewIsReset

\* C17: a grouping-mode change sets the mode to the chosen one, clears the
\* selection, turns connected-only off and clears its anchor, empties both
\* highlight sets and leaves the category filter as it was.
C17_GroupingChangeEffect ==
    lastEvent.name = "handleGroupingModeChange" =>
        /\ groupingMode = lastEvent.arg
        /\ selectedNode = NoSelection
        /\ ~showOnlyConnected
        /\ showingRelatedNodes = NoAnchor
        /\ highlightedElements = NoHighlight
        /\ selectedCategory = lastEvent.before.selectedCategory

\* The mode was changed to "Category" while a node was selected and
\* highlighted under a category filter other than "All".
C17_Witness ==
    /\ lastEvent.name = "handleGroupingModeChange"
    /\ lastEvent.arg = "Category"
    /\ lastEvent.before.groupingMode = "None"
    /\ lastEvent.before.selectedNode = "n1"
    /\ lastEvent.before.highlightedElements.nodeIds # {}
    /\ lastEvent.before.selectedCategory = "Reactor"
    /\ groupingMode = "Category"
    /\ selectedCategory = "Reactor"

\* C18: selecting a rendered node X yields a state whose selection is X and
\* whose search term is empty.
C18_SelectClearsSearch ==
    lastEvent.name = "handleShowDetails" =>
        /\ selectedNode = lastEvent.arg
        /\ searchTerm = <<>>

\* C19: "show connected" on a rendered node X turns connected-only on with
\* anchor X, clears the search term, empties the highlight sets and keeps the
\* node selected that was selected before.
C19_ShowConnectedKeepsSelection ==
    lastEvent.name = "handleShowConnected" =>
        /\ showOnlyConnected
        /\ showingRelatedNodes = lastEvent.arg
        /\ searchTerm = <<>>
        /\ highlightedElements = NoHighlight
        /\ lastEvent.before.selectedNode # NoSelection
              => selectedNode = lastEvent.before.selectedNode

\* C20: reset yields no selection, connected-only off and no anchor, empty
\* highlight sets, empty search and the category filter "All", and leaves
\* grouping mode and edit mode as they were; the category filter differs
\* from what an event found only if the event was reset or a category choice.
C20_ResetEffect ==
    /\ lastEvent.name = "handleReset" =>
          /\ ViewIsReset
          /\ searchInput = <<>>
          /\ groupingMode = lastEvent.before.groupingMode
          /\ isEditing = lastEvent.before.isEditing
    /\ selectedCategory # lastEvent.before.selectedCategory
          => lastEvent.name \in {"handleReset", "setSelectedCategory"}

\* Reset was used in edit mode, with grouping by category, while a node was
\* selected and highlighted under the category filter "Reactor".
C20_Witness ==
    /\ lastEvent.name = "handleReset"
    /\ lastEvent.before.selectedNode = "n1"
    /\ lastEvent.before.highlightedElements.nodeIds # {}
    /\ lastEvent.before.selectedCategory = "Reactor"
    /\ lastEvent.before.isEditing
    /\ isEditing
    /\ selectedCategory = ALL_CATEGORY
    /\ selectedNode = NoSelection

(***************************************************************************)
(* Search, edit mode                                                       *)
(***************************************************************************)
\* C21: setting the search term to the empty string clears the search
\* highlighting and touches no other filter: the selection, the
\* connected-only flag and its anchor, the category filter and the grouping
\* mode are what they were before the action.
C21_EmptySearchKeepsFilters ==
    (lastEvent.name = "handleSearchChange" /\ lastEvent.arg = <<>>) =>
        /\ searchTerm = <<>>
        /\ highlightedElements = NoHighlight
        /\ selectedNode = lastEvent.before.selectedNode
        /\ showOnlyConnected = lastEvent.before.showOnlyConnected
        /\ showingRelatedNodes = lastEvent.before.showingRelatedNodes
        /\ selectedCategory = lastEvent.before.selectedCategory
        /\ groupingMode = lastEvent.before.groupingMode

\* The rendered nodes are those of the graph that the search and the
\* anchor's one-hop neighbourhood both keep.
RenderedIsIntersection ==
    LET graph == CategoryFilter(GraphOf(techTree), selectedCategory)
        found == {graph.nodes[i].id :
                     i \in {j \in 1..Len(graph.nodes) :
                               LabelContains(graph.nodes[j].label, searchTerm)}}
        near == findConnectedElements(showingRelatedNodes, graph.edges).nodeIds
    IN  IdsOf(uiNodes) = found \cap near

\* C22: search and connected-only are independent axes that combine.  A user
\* action on one axis keeps the other, so that "show connected" during a
\* search, and a search while connected-only is on, both lead to a state with
\* a search term and connected-only on; in such a state, once its layout has
\* been rendered, the rendered set is the intersection of the search result
\* and the anchor's one-hop neighbourhood.
C22_SearchAndConnectedCombine ==
    /\ (lastEvent.name = "handleShowConnected" /\ lastEvent.before.searchTerm # <<>>) =>
           (showOnlyConnected /\ searchTerm = lastEvent.before.searchTerm)
    /\ (lastEvent.name = "handleSearchChange" /\ lastEvent.arg # <<>>
            /\ lastEvent.before.showOnlyConnected) =>
           (showOnlyConnected /\ searchTerm = lastEvent.arg)
    /\ (searchTerm # <<>> /\ showOnlyConnected /\ layouts = <<>> /\ ~isLoading
            /\ ~layoutRejected) =>
           RenderedIsIntersection

\* The nodes of the loaded graph whose label contains the term, and the edges
\* between them.
SearchMatches(term) ==
    LET graph == GraphOf(techTree)
        found == {graph.nodes[i].id :
                     i \in {j \in 1..Len(graph.nodes) :
                               LabelContains(graph.nodes[j].label, term)}}
    IN  [nodeIds |-> found,
         edgeIds |-> {graph.edges[i].id :
                         i \in {j \in 1..Len(graph.edges) :
                                   /\ graph.edges[j].source \in found
                                   /\ graph.edges[j].target \in found}}]

\* C23: after a search for a non-empty term T the highlight node set is the
\* set of nodes whose label contains T, case-insensitively, and the highlight
\* edge set is the set of edges with both endpoints matched (both empty when
\* no label matches).
C23_SearchHighlightsMatches ==
    (lastEvent.name = "handleSearchChange" /\ lastEvent.arg # <<>>
        /\ techTree # NoTree) =>
        highlightedElements = SearchMatches(lastEvent.arg)

\* C24: edit mode turns on only by a passed credential check and off only by
\* a confirmed exit; no other event changes it, and a failed check or a
\* declined confirmation leaves the whole view state as it was.
C24_EditModeGate ==
    /\ (isEditing # lastEvent.before.isEditing) =>
           \/ (lastEvent.name = "handleEnterEditMode" /\ lastEvent.arg = TRUE /\ isEditing)
           \/ (lastEvent.name = "handleExitEditMode" /\ lastEvent.arg = TRUE /\ ~isEditing)
    /\ (lastEvent.name \in {"handleEnterEditMode", "handleExitEditMode"}
            /\ lastEvent.arg = FALSE) =>
           ViewState = lastEvent.before
    /\ (lastEvent.name = "handleEnterEditMode" /\ lastEvent.arg = TRUE) => isEditing
    /\ (lastEvent.name = "handleExitEditMode" /\ lastEvent.arg = TRUE) => ~isEditing

\* A confirmed exit, which a passed check preceded, with a node selected.
C24_Witness ==
    /\ lastEvent.name = "handleExitEditMode"
    /\ lastEvent.arg = TRUE
    /\ lastEvent.before.isEditing
    /\ ~isEditing
    /\ selectedNode # NoSelection

(***************************************************************************)
(* Filters as functions                                                    *)
(***************************************************************************)
\* C25: for a category other than "All" the category filter returns exactly
\* the nodes of that category and exactly the edges whose source and target
\* are both among those nodes; for "All" it returns the graph unchanged.
C25_CategoryFilterExact ==
    cfPc = "returned" =>
        IF cfCategory = ALL_CATEGORY
        THEN cfResult = cfGraph
        ELSE LET keptNodes == {i \in 1..Len(cfGraph.nodes) :
                                  cfGraph.nodes[i].category = cfCategory}
                 keptIds == {cfGraph.nodes[i].id : i \in keptNodes}
                 keptEdges == {i \in 1..Len(cfGraph.edges) :
                                  /\ cfGraph.edges[i].source \in keptIds
                                  /\ cfGraph.edges[i].target \in keptIds}
             IN  /\ Len(cfResult.nodes) = Cardinality(keptNodes)
                 /\ {cfResult.nodes[i] : i \in 1..Len(cfResult.nodes)}
                        = {cfGraph.nodes[i] : i \in keptNodes}
                 /\ Len(cfResult.edges) = Cardinality(keptEdges)
                 /\ {cfResult.edges[i] : i \in 1..Len(cfResult.edges)}
                        = {cfGraph.edges[i] : i \in keptEdges}

\* Nodes {A:cat1, B:cat1, C:cat2} and the edge A->C, filtered to cat1: nodes
\* A and B, and no edge.
C25_Witness ==
    /\ cfPc = "returned"
    /\ cfCategory = "cat1"
    /\ cfGraph.nodes = <<TreeNode("A", <<>>, "cat1"), TreeNode("B", <<>>, "cat1"),
                         TreeNode("C", <<>>, "cat2")>>
    /\ cfGraph.edges = <<NormalizedEdge("A", "C")>>
    /\ IdsOf(cfResult.nodes) = {"A", "B"}
    /\ cfResult.edges = <<>>

\* C26: connected expansion from X returns X and every node that is the
\* other endpoint of an edge with source X or target X, and the identifiers
\* of exactly those edges; a node two edges away is not included, and an
\* isolated X gives {X} and no edge.
C26_ConnectedOneHop ==
    fcPc = "returned" =>
        LET touching == {i \in 1..Len(fcEdges) :
                            fcEdges[i].source = fcNodeId \/ fcEdges[i].target = fcNodeId}
        IN  /\ fcNodeId \in fcResult.nodeIds
            /\ \A n \in FilterNodeIds \ {fcNodeId} :
                   n \in fcResult.nodeIds <=>
                       \E i \in 1..Len(fcEdges) :
                           \/ (fcEdges[i].source = fcNodeId /\ fcEdges[i].target = n)
                           \/ (fcEdges[i].target = fcNodeId /\ fcEdges[i].source = n)
            /\ fcResult.nodeIds \subseteq FilterNodeIds
            /\ fcResult.edgeIds = {fcEdges[i].id : i \in touching}
            /\ (touching = {}) => (fcResult = [nodeIds |-> {fcNodeId}, edgeIds |-> {}])

\* A->B and B->C expanded from A: C, two edges away, is left out.
C26_Witness ==
    /\ fcPc = "returned"
    /\ fcNodeId = "A"
    /\ fcEdges = NamedEdges(<<<<"A", "B">>, <<"B", "C">>>>)
    /\ fcResult = [nodeIds |-> {"A", "B"}, edgeIds |-> {"e1"}]

(***************************************************************************)
(* Layout failure, highlight and layout                                    *)
(***************************************************************************)
\* Every fetch and every layout call that was started has settled.
NothingOutstanding ==
    /\ layouts = <<>>
    /\ \A i \in 1..Len(fetches) : fetches[i].pc \in {"applied", "failed"}

\* C27: a failed layout call does not leave the view stuck: after a layout
\* call has failed, once nothing is outstanding any more, the graph view is
\* out of the loading state (and shows the nodes it has).
C27_LayoutFailureDegrades ==
    (layoutRejected /\ NothingOutstanding /\ error = NoError /\ techTree # NoTree) =>
        ~isLoading

\* A step that changes the selection or the highlight sets and no other part
\* of the view state.
OnlySelectionAndHighlightChange ==
    /\ <<selectedNode, highlightedElements>>' # <<selectedNode, highlightedElements>>
    /\ UNCHANGED <<groupingMode, showingRelatedNodes, showOnlyConnected, searchInput,
                   searchTerm, selectedCategory, isEditing, fetchVars>>

\* Every layout call started by the step has for arguments the grouping
\* mode, anchor, connected-only flag, category and graph of the state the
\* step leads to, and the search term of that state or of the state before
\* (the search effect sets the term one render after the input).
NewCallsTakeViewState ==
    \A i \in (Len(layouts) + 1)..Len(layouts') :
        \/ layouts'[i] = Deps'
        \/ layouts'[i] = [Deps' EXCEPT !.searchTerm = searchTerm]

\* C28: highlight styling never feeds the layout: a step that changes only
\* the selection and the highlight sets starts no layout call, and the
\* arguments of every layout call are the grouping mode, anchor,
\* connected-only flag, search term, category and loaded graph, never the
\* styled nodes or edges.
C28_HighlightNeverFeedsLayout ==
    [][/\ OnlySelectionAndHighlightChange =>
              (layouts' = layouts /\ isLoading' = isLoading)
       /\ NewCallsTakeViewState]_vars

\* Details of a node are shown: it and its neighbours are emphasised, and
\* no layout call is outstanding.
C28_Witness ==
    /\ lastEvent.name = "handleShowDetails"
    /\ selectedNode = "n1"
    /\ highlightedElements.nodeIds = {"n1", "n2"}
    /\ \A i \in 1..Len(uiNodes) : uiNodes[i].highlighted
    /\ Len(uiNodes) = 2
    /\ layouts = <<>>
    /\ ~isLoading

(***************************************************************************)
(* Edge normalization twice, and the count check                           *)
(***************************************************************************)
\* C29: edge normalization is idempotent: on its own output (single-target
\* edges) it returns the same edges with the same identifiers, and on the
\* same raw input it returns the same identifier sequence again.
C29_NormalizationIdempotent ==
    /\ nePc = "returned" =>
           [i \in 1..Len(neOutput) |-> neOutput[i].id]
               = [i \in 1..Len(neOutput) |-> normalizeTechTreeEdges(neInput).edges[i].id]
    /\ neAgain.called =>
           /\ neAgain.edges = neOutput
           /\ \A i \in 1..Len(neOutput) : neAgain.edges[i].id = neOutput[i].id

\* A fan-out record and a single-target record, normalized and normalized
\* again.
C29_Witness ==
    /\ neAgain.called
    /\ Len(neInput) = 2
    /\ IsMultiTarget(neInput[1])
    /\ Len(neOutput) = 3
    /\ Len(neAgain.edges) = 3
    /\ \E i \in 1..3 : neOutput[i].source # neOutput[i].target

\* The expected count: one per single-target record, len(targets) per
\* multi-target record.
ClaimedExpectedCount(recs) ==
    Cardinality({i \in 1..Len(recs) : "target" \in DOMAIN recs[i]})
    + Cardinality({ij \in (1..Len(recs)) \X (1..MaxTargets) :
                      /\ IsMultiTarget(recs[ij[1]])
                      /\ ij[2] <= Len(recs[ij[1]]["targets"])})

\* C30: the edge-count check is count-based: it fails exactly when the
\* number of emitted edges differs from the expected count, whatever the
\* endpoints of the emitted edges are (duplicates included).
C30_EdgeCountCheckCountBased ==
    neCheck.ran =>
        (neCheck.check = "EdgeCount" <=> Len(neOutput) # ClaimedExpectedCount(neInput))

\* Two emitted edges are the same edge and the check passes.
C30_Witness ==
    /\ neCheck.ran
    /\ neCheck.check = "none"
    /\ \E i, j \in 1..Len(neOutput) : i # j /\ neOutput[i] = neOutput[j]

(***************************************************************************)
(* Invariants of the view state; layout completions                        *)
(***************************************************************************)
\* C31: the connected-only flag is on exactly when an anchor is set, in
\* every state that show-connected, select, search, grouping change, reset,
\* category change and topic change lead to.
C31_ConnectedFlagIffAnchor ==
    showOnlyConnected <=> (showingRelatedNodes # NoAnchor)

\* "Show connected" was chosen for node n1 of the rendered graph.
C31_Witness ==
    /\ lastEvent.name = "handleShowConnected"
    /\ ~lastEvent.before.showOnlyConnected
    /\ showOnlyConnected
    /\ showingRelatedNodes = "n1"

\* The identifiers of rendered nodes or edges, in their order.
IdSeq(s) == [i \in 1..Len(s) |-> s[i].id]

\* C34: once every layout call that was started has completed, the rendered
\* nodes and edges are the layout result for the current view inputs; the
\* result of a call started for earlier inputs does not replace that of a
\* call started for later inputs.
C34_RenderedIsLatestLayout ==
    (layouts = <<>> /\ ~isLoading /\ ~layoutRejected /\ techTree # NoTree) =>
        /\ IdSeq(uiNodes) = IdSeq(LayoutResult(Deps).layoutedNodes)
        /\ IdSeq(uiEdges) = IdSeq(LayoutResult(Deps).layoutedEdges)

\* C35: with no layout call outstanding, a rendered node is emphasised
\* exactly when its identifier is in the highlight node set, and a rendered
\* edge exactly when its identifier is in the highlight edge set, also after
\* a layout call replaced the rendered nodes and edges.
C35_EmphasisFollowsHighlight ==
    layouts = <<>> =>
        /\ \A i \in 1..Len(uiNodes) :
               uiNodes[i].highlighted <=> (uiNodes[i].id \in highlightedElements.nodeIds)
        /\ \A i \in 1..Len(uiEdges) :
               uiEdges[i].highlighted <=> (uiEdges[i].id \in highlightedElements.edgeIds)

\* C37: with no layout call outstanding, the selected node and the
\* connected-only anchor, when there is one, are nodes of the rendered view.
C37_SelectionIsRendered ==
    (layouts = <<>> /\ ~isLoading) =>
        /\ (selectedNode # NoSelection) => (selectedNode \in IdsOf(uiNodes))
        /\ (showingRelatedNodes # NoAnchor) => (showingRelatedNodes \in IdsOf(uiNodes))

\* C38: a non-empty highlight node set means that a node is selected and is
\* in that set, and every step that clears the selection empties both
\* highlight sets.
C38_HighlightImpliesSelection ==
    /\ [](highlightedElements.nodeIds # {} =>
             (selectedNode # NoSelection /\ selectedNode \in highlightedElements.nodeIds))
    /\ [][(selectedNode # NoSelection /\ selectedNode' = NoSelection) =>
              highlightedElements' = NoHighlight]_vars

\* The details of n1 were shown and then the search box was changed: the
\* selection and both highlight sets are empty.
C38_Witness ==
    /\ lastEvent.name = "handleSearchChange"
    /\ lastEvent.before.selectedNode = "n1"
    /\ lastEvent.before.highlightedElements.nodeIds = {"n1", "n2"}
    /\ selectedNode = NoSelection
    /\ highlightedElements = NoHighlight

(***************************************************************************)
(* The loading flag of useTechTree                                         *)
(***************************************************************************)
\* C36: while a fetch for the active topic is outstanding the loading flag
\* of the hook is true, whatever the order of topic switches and fetch
\* completions or failures; once every fetch has completed or failed it is
\* false.
C36_LoadingFlagAccurate ==
    /\ (\E i \in 1..Len(fetches) :
            fetches[i].topic = currentTopic /\ fetches[i].pc \in {"fetch", "json"})
           => isLoadingData
    /\ (\A i \in 1..Len(fetches) : fetches[i].pc \in {"applied", "failed"})
           => ~isLoadingData

RunOrder == <<"idle", "connect", "ping", "deleteNodes", "deleteEdges", "insertNodes",
              "insertEdges", "close", "done", "rejected">>

Rank(pc) == CHOOSE i \in 1..Len(RunOrder) : RunOrder[i] = pc

\* C33: a run that opened a store connection closes it, whether its store
\* calls succeed or fail; a store call that fails ends the run with a failure
\* status, and no call is issued again.
C33_ConnectionClosedNoRetry ==
    /\ [](ingPc \in {"idle", "rejected", "done"} => ~clientOpen)
    /\ [](ingFailed # "none" => (exitCode = 1 /\ ingPc \in {"close", "done"}))
    /\ [](\A i, j \in 1..Len(storeLog) : storeLog[i] = storeLog[j] => i = j)
    /\ [][ingPc' # ingPc => Rank(ingPc') > Rank(ingPc)]_vars
    /\ [][(ingFailed = "none" /\ ingFailed' # "none") =>
              (ingFailed' = ingPc /\ ingPc' = "close")]_vars
    /\ (clientOpen ~> ~clientOpen)

\* The insert of the edges failed; the run is over, the connection closed
\* and the exit code 1.
C33_Witness ==
    /\ ingFailed = "insertEdges"
    /\ ingPc = "done"
    /\ ~clientOpen
    /\ exitCode = 1
    /\ storeLog = <<"deleteMany nodes", "deleteMany edges", "insertMany nodes",
                    "insertMany edges">>

(***************************************************************************)
(* The edge route                                                          *)
(***************************************************************************)
\* C39: a DELETE request reports success only if it itself removed the
\* edge, so of two requests for the same edge of the same topic at most one
\* reports success; a request answered 400 or 404 removed nothing, and a
\* successful one removed no other edge.
C39_DeleteReportsOwnRemoval ==
    /\ \A r \in 1..MaxDeletes :
           /\ delReqs[r].status = 200 => delReqs[r].removed = {delReqs[r].edgeId}
           /\ delReqs[r].status \in {400, 404} => delReqs[r].removed = {}
    /\ \A r1, r2 \in 1..MaxDeletes :
           (/\ r1 # r2
            /\ delReqs[r1].topic = delReqs[r2].topic
            /\ delReqs[r1].edgeId = delReqs[r2].edgeId)
           => ~(delReqs[r1].status = 200 /\ delReqs[r2].status = 200)

(***************************************************************************)
(* The simulation route                                                    *)
(***************************************************************************)
\* The text is a decimal numeral, with or without a sign.
IsIntegerText(text) ==
    LET first == IF Len(text) >= 1 /\ text[1] \in {"-", "+"} THEN 2 ELSE 1
    IN  /\ first <= Len(text)
        /\ \A i \in first..Len(text) : IsDigit(text[i])

\* The `years` parameter is omitted, or denotes an integer from 5 to 30.
DenotesYears(param) ==
    \/ param = NoParam
    \/ param.text = <<>>
    \/ /\ IsIntegerText(param.text)
       /\ parseInt(param.text).n \in 5..30

\* C40: the simulation route reads the store only for a configured topic
\* and a `years` parameter that is omitted or denotes an integer from 5 to
\* 30; every other request is answered 400 without a read of the store.
C40_YearsValidated ==
    LET valid == rdTopic \in TOPICS /\ DenotesYears(rdYears.param)
    IN  /\ (rdPc = "reading" \/ rdNodes.got \/ rdEdges.got) => valid
        /\ (rdPc # "idle" /\ ~valid) => rdStatus = 400

====
